---- MODULE Spec2Model ----
(***************************************************************************)
(* Content API of the portfolio site (app.py) over its three tables        *)
(* (models.py): the three read endpoints, the contact submission, and the  *)
(* seeding of projects and skills.                                         *)
(*                                                                         *)
(* Values.  A nullable Python/SQL value is a sequence of length at most    *)
(* one: None/NULL is << >>, a present value v is <<v>>.  A text that the   *)
(* code splits (tech_stack) is a sequence of characters.  A dict or a JSON *)
(* object is a record; a key the dict lacks is a field the record lacks.   *)
(***************************************************************************)
EXTENDS Integers, Sequences, FiniteSets, TLC

VARIABLES projects, skills, contacts, clock, req, writer, nreq, out,
          auditor, files, run

\* The state of the site: the store, the requests in progress, the answer.
site == <<projects, skills, contacts, clock, req, writer, nreq, out>>

\* The state of the maintenance scripts: the AccessibilityAuditor object, the
\* files of the working directory, and the position and result of the run.
tools == <<auditor, files, run>>

vars == <<site, tools>>

(***************************************************************************)
(* Bounds of the model.                                                    *)
(***************************************************************************)
NumClients == 2
MaxRequests == 2
MaxSeeds == 3
TicksPerSecond == 2
MaxClock == 32
MaxAudited == 1

Clients == 1..NumClients

None == << >>
Some(v) == <<v>>
Truthy(v) == v # None /\ v[1] # ""

(***************************************************************************)
(* Texts and dates.                                                        *)
(***************************************************************************)
Delim == ","

RECURSIVE SplitAcc(_, _, _)
SplitAcc(s, cur, acc) ==
    IF s = << >> THEN Append(acc, cur)
    ELSE IF Head(s) = Delim
         THEN SplitAcc(Tail(s), << >>, Append(acc, cur))
         ELSE SplitAcc(Tail(s), Append(cur, Head(s)), acc)

\* str.split(','): the pieces between the delimiters; "" splits into [""].
str_split(s) == SplitAcc(s, << >>, << >>)

RECURSIVE Digits(_)
Digits(n) == IF n < 10 THEN <<n>> ELSE Append(Digits(n \div 10), n % 10)

Pad2(n) == <<n \div 10, n % 10>>

\* date.strftime('%Y-%m-%d')
strftime_date(d) == Digits(d.y) \o <<"-">> \o Pad2(d.m) \o <<"-">> \o Pad2(d.d)

\* datetime.strftime('%Y-%m-%d %H:%M:%S'): the instant cut to whole seconds.
strftime_datetime(t) == <<"T">> \o Digits(t \div TicksPerSecond)

(***************************************************************************)
(* The store: three rowid tables.                                          *)
(***************************************************************************)
Ids(table) == {r.id : r \in table}

MaxId(table) == IF table = {} THEN 0
                ELSE CHOOSE i \in Ids(table) : \A j \in Ids(table) : j <= i

\* INTEGER PRIMARY KEY without AUTOINCREMENT: one more than the largest rowid.
NewRowid(table) == MaxId(table) + 1

RECURSIVE ScanAsc(_)
ScanAsc(table) ==
    IF table = {} THEN << >>
    ELSE LET r == CHOOSE r \in table : \A q \in table : r.id <= q.id
         IN  <<r>> \o ScanAsc(table \ {r})

RECURSIVE ScanDesc(_)
ScanDesc(table) ==
    IF table = {} THEN << >>
    ELSE LET r == CHOOSE r \in table : \A q \in table : r.id >= q.id
         IN  <<r>> \o ScanDesc(table \ {r})

query_all_desc(table) == ScanDesc(table)

query_all_by_clock(table) == IF clock % 2 = 0 THEN ScanAsc(table) ELSE ScanDesc(table)

\* Model.query.all(): no ORDER BY, a table scan in rowid order.
query_all(table) == ScanAsc(table)

IsFeaturedOrNull(p) == p.featured # Some(FALSE)
IsFeatured(p) == p.featured = Some(TRUE)

\* Project.query.filter_by(featured=True).all()
query_featured(table) == SelectSeq(query_all(table), IsFeatured)

Kw(kwargs, key, default) == IF key \in DOMAIN kwargs THEN kwargs[key] ELSE default

\* Project(**kwargs) inserted: column defaults fill what the caller left out.
ProjectRow(kwargs, id, now) ==
    [id |-> id,
     title |-> kwargs.title,
     description |-> kwargs.description,
     tech_stack |-> kwargs.tech_stack,
     date_created |-> kwargs.date_created,
     github_url |-> Kw(kwargs, "github_url", None),
     demo_url |-> Kw(kwargs, "demo_url", None),
     image_url |-> Kw(kwargs, "image_url", None),
     featured |-> Kw(kwargs, "featured", Some(FALSE)),
     created_at |-> Some(now)]

SkillRow_no_default(kwargs, id, now) ==
    [id |-> id,
     name |-> kwargs.name,
     category |-> kwargs.category,
     proficiency_level |-> Kw(kwargs, "proficiency_level", None),
     icon_class |-> Kw(kwargs, "icon_class", None),
     created_at |-> Some(now)]

SkillRow(kwargs, id, now) ==
    [id |-> id,
     name |-> kwargs.name,
     category |-> kwargs.category,
     proficiency_level |-> Kw(kwargs, "proficiency_level", Some(1)),
     icon_class |-> Kw(kwargs, "icon_class", None),
     created_at |-> Some(now)]

ContactMessageRow(kwargs, id, now) ==
    [id |-> id,
     name |-> kwargs.name,
     email |-> kwargs.email,
     subject |-> Kw(kwargs, "subject", None),
     message |-> kwargs.message,
     ip_address |-> Kw(kwargs, "ip_address", None),
     created_at |-> Some(now),
     read_status |-> Kw(kwargs, "read_status", Some(FALSE))]

(***************************************************************************)
(* Serialization: the models' to_dict and the endpoints' own dicts.        *)
(***************************************************************************)
tech_stack_split_always(ts) == str_split(ts)

IsPiece(piece) == piece # << >>

tech_stack_nonempty_pieces(ts) == SelectSeq(str_split(ts), IsPiece)

\* self.tech_stack.split(',') if self.tech_stack else []
tech_stack_list(ts) == IF ts # << >> THEN str_split(ts) ELSE << >>

date_repr(d) == IF d # None THEN Some(strftime_date(d[1])) ELSE None

datetime_repr(t) == IF t # None THEN Some(strftime_datetime(t[1])) ELSE None

Project_to_dict(p) ==
    [id |-> p.id,
     title |-> p.title,
     description |-> p.description,
     tech_stack |-> tech_stack_list(p.tech_stack),
     date_created |-> date_repr(p.date_created),
     github_url |-> p.github_url,
     demo_url |-> p.demo_url,
     image_url |-> p.image_url,
     featured |-> p.featured,
     created_at |-> datetime_repr(p.created_at)]

Skill_to_dict(s) ==
    [id |-> s.id,
     name |-> s.name,
     category |-> s.category,
     proficiency_level |-> s.proficiency_level,
     icon_class |-> s.icon_class,
     created_at |-> datetime_repr(s.created_at)]

\* The dict get_projects appends for one project.
project_entry(p) ==
    [id |-> p.id,
     title |-> p.title,
     description |-> p.description,
     tech_stack |-> tech_stack_list(p.tech_stack),
     date_created |-> date_repr(p.date_created),
     github_url |-> p.github_url,
     demo_url |-> p.demo_url,
     featured |-> p.featured]

\* The dict get_featured_projects appends for one project.
featured_entry(p) ==
    [id |-> p.id,
     title |-> p.title,
     description |-> p.description,
     tech_stack |-> tech_stack_list(p.tech_stack),
     date_created |-> date_repr(p.date_created),
     github_url |-> p.github_url,
     demo_url |-> p.demo_url,
     featured |-> p.featured]

\* The dict get_skills appends for one skill.
skill_entry(s) ==
    [id |-> s.id,
     name |-> s.name,
     proficiency_level |-> s.proficiency_level,
     icon_class |-> s.icon_class]

HasGroup(groups, category) == \E i \in 1..Len(groups) : groups[i].category = category

add_to_first_group(groups, s) ==
    IF groups = << >>
    THEN <<[category |-> s.category, items |-> <<skill_entry(s)>>]>>
    ELSE [groups EXCEPT ![1].items = Append(@, skill_entry(s))]

\* One pass of the loop of get_skills: the group is created when its
\* category is first seen, then the entry is appended to it.
add_to_group(groups, s) ==
    LET g1 == IF HasGroup(groups, s.category) THEN groups
              ELSE Append(groups, [category |-> s.category, items |-> << >>])
    IN  [i \in 1..Len(g1) |->
            IF g1[i].category = s.category
            THEN [g1[i] EXCEPT !.items = Append(@, skill_entry(s))]
            ELSE g1[i]]

RECURSIVE group_skills(_, _)
group_skills(rows, groups) ==
    IF rows = << >> THEN groups
    ELSE group_skills(Tail(rows), add_to_group(groups, Head(rows)))

\* The dict skills_by_category, as the sequence of its (key, value) pairs
\* in insertion order.
skills_by_category(rows) == group_skills(rows, << >>)

\* The categories the seed data and the tests use, in the order in which
\* the JSON encoder's sort_keys puts them.
CategoryOrder == <<"learning", "programming", "tools">>

Rank(category) == CHOOSE i \in 1..Len(CategoryOrder) : CategoryOrder[i] = category

RECURSIVE SortGroups(_)
SortGroups(groups) ==
    IF groups = << >> THEN << >>
    ELSE LET i == CHOOSE i \in 1..Len(groups) :
                     \A j \in 1..Len(groups) :
                         Rank(groups[i].category) <= Rank(groups[j].category)
             rest == [k \in 1..(Len(groups) - 1) |->
                         IF k < i THEN groups[k] ELSE groups[k + 1]]
         IN  <<groups[i]>> \o SortGroups(rest)

jsonify_mapping_unsorted(groups) == groups

\* jsonify of a dict keyed by category: the keys come out sorted.
jsonify_mapping(groups) == SortGroups(groups)

(***************************************************************************)
(* Responses: the HTTP status and the JSON envelope.                       *)
(***************************************************************************)
NoResponse == [op |-> "none"]

SuccessEnvelope(data, message) ==
    [status |-> "success", data |-> data, message |-> message]

ErrorEnvelope_with_data(code, message) ==
    [status |-> "error", data |-> None,
     error |-> [code |-> code, message |-> message]]

ErrorEnvelope(code, message) ==
    [status |-> "error", error |-> [code |-> code, message |-> message]]

\* str(e) of the exceptions the store raises on a query, a flush or a commit.
StoreExceptions == {"OperationalError: database is locked",
                    "OperationalError: disk I/O error"}

error_response_str_e(message, e) == ErrorEnvelope("DATABASE_ERROR", e)

\* except Exception as e: return jsonify({... 'code': 'DATABASE_ERROR',
\* 'message': <the handler's fixed text>}), 500 -- e is bound and not used.
error_response(message, e) == ErrorEnvelope("DATABASE_ERROR", message)

get_projects_data(table) ==
    LET rows == query_all(table)
    IN  [i \in 1..Len(rows) |-> project_entry(rows[i])]

get_featured_projects_data(table) ==
    LET rows == query_featured(table)
    IN  [i \in 1..Len(rows) |-> featured_entry(rows[i])]

get_skills_data(table) == jsonify_mapping(skills_by_category(query_all(table)))


(***************************************************************************)
(* Seed and test data: the constructor arguments the repository passes.    *)
(***************************************************************************)
Date(y, m, d) == [y |-> y, m |-> m, d |-> d]

\* test_api.py setUp
TestProject1 ==
    [title |-> "Test Project 1", description |-> "First test project",
     tech_stack |-> <<"P", ",", "F">>, date_created |-> Some(Date(2025, 1, 1)),
     featured |-> Some(TRUE)]

TestProject2 ==
    [title |-> "Test Project 2", description |-> "Second test project",
     tech_stack |-> <<"J", ",", "R">>, date_created |-> Some(Date(2025, 2, 1)),
     featured |-> Some(FALSE)]

\* test_models.py test_project_tech_stack_empty: no featured given
EmptyTechProject ==
    [title |-> "Empty Tech Stack Project", description |-> "Project with no tech stack",
     tech_stack |-> << >>, date_created |-> Some(Date(2025, 11, 5))]

\* test_models.py test_project_to_dict: github_url given, no featured
ToDictProject ==
    [title |-> "Test Project", description |-> "A test project description",
     tech_stack |-> <<"P", ",", "F", ",", "S">>, date_created |-> Some(Date(2025, 1, 1)),
     github_url |-> Some("https://github.com/test/project")]

\* init_db.py: demo_url=None, image_url given, featured
SeedProject1 ==
    [title |-> "Fake News Detection Web App", description |-> "A machine learning-powered web application",
     tech_stack |-> <<"F", ",", "P">>, date_created |-> Some(Date(2025, 8, 15)),
     github_url |-> Some("https://github.com/jaiyan-th/fake-news-detector"),
     demo_url |-> None, image_url |-> Some("/static/images/fake-news-project.jpg"),
     featured |-> Some(TRUE)]

\* A project created with featured=None and adjacent, trailing delimiters.
NullFeaturedProject ==
    [title |-> "Draft", description |-> "A draft",
     tech_stack |-> <<"P", ",", ",">>, date_created |-> Some(Date(2025, 10, 20)),
     featured |-> None]

ProjectInputs == {TestProject1, TestProject2, EmptyTechProject, ToDictProject,
                  SeedProject1, NullFeaturedProject}

\* test_api.py setUp
TestSkill1 == [name |-> "Python", category |-> "programming", proficiency_level |-> Some(4)]

TestSkill2 == [name |-> "Excel", category |-> "tools", proficiency_level |-> Some(3)]

\* test_models.py test_skill_default_proficiency
DefaultSkill == [name |-> "New Skill", category |-> "learning"]

\* init_db.py
SeedSkillJs ==
    [name |-> "JavaScript", category |-> "programming", proficiency_level |-> Some(3),
     icon_class |-> Some("fab fa-js-square")]

SkillInputs == {TestSkill1, TestSkill2, DefaultSkill, SeedSkillJs}

Seeded == Cardinality(projects) + Cardinality(skills)

\* db.session.add(Project(...)); db.session.commit()
add_project(kwargs) ==
    /\ Seeded < MaxSeeds
    /\ projects' = projects \cup {ProjectRow(kwargs, NewRowid(projects), clock)}
    /\ clock' = clock + 1
    /\ out' = NoResponse
    /\ UNCHANGED <<skills, contacts, req, writer, nreq, tools>>

\* db.session.add(Skill(...)); db.session.commit()
add_skill(kwargs) ==
    /\ Seeded < MaxSeeds
    /\ skills' = skills \cup {SkillRow(kwargs, NewRowid(skills), clock)}
    /\ clock' = clock + 1
    /\ out' = NoResponse
    /\ UNCHANGED <<projects, contacts, req, writer, nreq, tools>>

(***************************************************************************)
(* The read endpoints.  Each is one query and a pure transformation; the   *)
(* query either returns the committed rows or raises.                      *)
(***************************************************************************)
\* What a read answered; exc records the exception the query raised, if any.
Reply(op, exc, http, json) == [op |-> op, exc |-> exc, http |-> http, json |-> json]

get_projects_swallow ==
    /\ \/ out' = Reply("get_projects", "none", 200,
                       SuccessEnvelope([projects |-> get_projects_data(projects)],
                                       "Projects retrieved successfully"))
       \/ \E e \in StoreExceptions :
             out' = Reply("get_projects", e, 200,
                          SuccessEnvelope([projects |-> << >>],
                                          "Projects retrieved successfully"))
    /\ UNCHANGED <<projects, skills, contacts, clock, req, writer, nreq, tools>>

get_projects ==
    /\ \/ out' = Reply("get_projects", "none", 200,
                       SuccessEnvelope([projects |-> get_projects_data(projects)],
                                       "Projects retrieved successfully"))
       \/ \E e \in StoreExceptions :
             out' = Reply("get_projects", e, 500, error_response("Failed to retrieve projects", e))
    /\ UNCHANGED <<projects, skills, contacts, clock, req, writer, nreq, tools>>

get_featured_projects ==
    /\ \/ out' = Reply("get_featured_projects", "none", 200,
                       SuccessEnvelope([projects |-> get_featured_projects_data(projects)],
                                       "Featured projects retrieved successfully"))
       \/ \E e \in StoreExceptions :
             out' = Reply("get_featured_projects", e, 500, error_response("Failed to retrieve featured projects", e))
    /\ UNCHANGED <<projects, skills, contacts, clock, req, writer, nreq, tools>>

get_skills ==
    /\ \/ out' = Reply("get_skills", "none", 200,
                       SuccessEnvelope([skills |-> get_skills_data(skills)],
                                       "Skills retrieved successfully"))
       \/ \E e \in StoreExceptions :
             out' = Reply("get_skills", e, 500, error_response("Failed to retrieve skills", e))
    /\ UNCHANGED <<projects, skills, contacts, clock, req, writer, nreq, tools>>

Idle == [pc |-> "idle"]

\* No maintenance script is running and none has left anything.
ToolsIdle ==
    /\ auditor = [passed |-> << >>, warnings |-> << >>, issues |-> << >>]
    /\ files = {}
    /\ run = [pc |-> "idle"]

\* The store of the content specification: created empty (db.create_all()).
InitContent ==
    /\ projects = {}
    /\ skills = {}
    /\ contacts = {}
    /\ clock = 0
    /\ req = [c \in Clients |-> Idle]
    /\ writer = 0
    /\ nreq = 0
    /\ out = NoResponse
    /\ ToolsIdle

SeedProject == \E kwargs \in ProjectInputs : add_project(kwargs)

SeedSkill == \E kwargs \in SkillInputs : add_skill(kwargs)

NextContent ==
    \/ SeedProject
    \/ SeedSkill
    \/ get_projects
    \/ get_featured_projects
    \/ get_skills

\* Content administration and the three read endpoints.
SpecContent == InitContent /\ [][NextContent]_vars


(***************************************************************************)
(* POST /api/contact.                                                      *)
(*                                                                         *)
(* A request body is one of: "nojson" (no body, a body that is not sent as *)
(* JSON or does not parse: request.get_json() raises), "null" (get_json    *)
(* returns None), "array" (a non-empty JSON array: a truthy value without  *)
(* .get), "object" (a JSON object; fields holds its members).              *)
(***************************************************************************)
Name == Some("John Doe")
Email == Some("john@example.com")
Message == Some("Test message")
Subject == Some("Another Test")

\* test_api.py test_submit_contact_success, and the same with a subject
ValidBody == [kind |-> "object",
              fields |-> [name |-> Name, email |-> Email, message |-> Message]]

ValidBodyWithSubject ==
    [kind |-> "object",
     fields |-> [name |-> Name, email |-> Email, subject |-> Subject, message |-> Message]]

\* Each required member in turn missing or empty, the rest as in
\* ValidBodyWithSubject; a null name; test_submit_contact_missing_fields
\* (only a name); the empty object.
Without(d, key) == [k \in DOMAIN d \ {key} |-> d[k]]

Required == {"name", "email", "message"}

InvalidBodies ==
    {[kind |-> "object", fields |-> Without(ValidBodyWithSubject.fields, k)] : k \in Required}
    \cup {[kind |-> "object", fields |-> [ValidBodyWithSubject.fields EXCEPT ![k] = Some("")]] :
            k \in Required}
    \cup {[kind |-> "object", fields |-> [ValidBodyWithSubject.fields EXCEPT !.name = None]],
          [kind |-> "object", fields |-> [name |-> Name]],
          [kind |-> "object", fields |-> << >>]}

ContactBodies ==
    {ValidBody, ValidBodyWithSubject} \cup InvalidBodies
    \cup {[kind |-> "nojson"], [kind |-> "null"], [kind |-> "array"]}

\* dict.get(key) and dict.get(key, default)
dict_get(d, key, default) == IF key \in DOMAIN d THEN d[key] ELSE default

\* request.remote_addr of the client's connection
remote_addr(c) == Some(<<"10.0.0", c>>)

\* The required-field check of submit_contact on a JSON object.
fields_ok_name_present(d) ==
    /\ "name" \in DOMAIN d
    /\ Truthy(dict_get(d, "email", None))
    /\ Truthy(dict_get(d, "message", None))

fields_ok_message_present(d) ==
    /\ Truthy(dict_get(d, "name", None))
    /\ Truthy(dict_get(d, "email", None))
    /\ "message" \in DOMAIN d

fields_ok(d) ==
    /\ Truthy(dict_get(d, "name", None))
    /\ Truthy(dict_get(d, "email", None))
    /\ Truthy(dict_get(d, "message", None))

\* The keyword arguments of ContactMessage(...) in submit_contact.
contact_kwargs_swapped(d, c) ==
    [name |-> d["email"],
     email |-> d["name"],
     subject |-> dict_get(d, "subject", Some("")),
     message |-> d["message"],
     ip_address |-> remote_addr(c)]

contact_kwargs(d, c) ==
    [name |-> d["name"],
     email |-> d["email"],
     subject |-> dict_get(d, "subject", Some("")),
     message |-> d["message"],
     ip_address |-> remote_addr(c)]

\* What a request answered.  rid, body, cause and exc record which request it
\* was (0: one that never reached the session), what it sent, whether an
\* exception was raised, by reading the input or by the store, and which.
ContactReply(rid, body, cause, exc, http, json) ==
    [op |-> "submit_contact", rid |-> rid, body |-> body,
     cause |-> cause, exc |-> exc, http |-> http, json |-> json]

\* str(e) of what request.get_json() raises on a body that is not JSON, and
\* of what data.get raises on a list.
InputExceptions(kind) ==
    IF kind = "nojson"
    THEN {"415 Unsupported Media Type", "400 Bad Request"}
    ELSE {"AttributeError: 'list' object has no attribute 'get'"}

ValidationError ==
    ErrorEnvelope("VALIDATION_ERROR", "Name, email, and message are required fields")

DatabaseError(e) == error_response("Failed to send message", e)

ContactSuccess == [status |-> "success", message |-> "Message sent successfully"]

\* db.session.rollback(): the session's transaction ends and the database's
\* write lock, if this connection holds it, is released.
rollback_skipped(c) == writer

session_rollback(c) == IF writer = c THEN 0 ELSE writer

\* except Exception: db.session.rollback(); return jsonify(DATABASE_ERROR), 500
\* The exception reaches the handler without any step of another request that
\* could tell the difference, so raising and handling are one step.
submit_contact_except(c, rid, body, cause, e) ==
    /\ writer' = session_rollback(c)
    /\ req' = [req EXCEPT ![c] = Idle]
    /\ out' = ContactReply(rid, body, cause, e, 500, DatabaseError(e))

lock_ignored(c) == TRUE

\* The INSERT needs the database's write lock: it is granted when no other
\* connection holds it.
lock_free(c) == writer = 0

table_replace(table, row) == {row}

\* COMMIT: the inserted row joins the committed rows of its table.
table_insert(table, row) == table \cup {row}

\* Lines 123-142: get_json, the required-field check, the construction of
\* the ContactMessage and session.add.  Nothing here reads or writes the store.
submit_contact_begin(c, body) ==
    /\ req[c].pc = "idle"
    /\ \/ /\ body.kind \in {"nojson", "array"}
          /\ \E e \in InputExceptions(body.kind) :
                submit_contact_except(c, 0, body, "input", e)
          /\ UNCHANGED nreq
       \/ /\ \/ body.kind = "null"
             \/ body.kind = "object" /\ ~fields_ok(body.fields)
          /\ out' = ContactReply(0, body, "none", "none", 400, ValidationError)
          /\ UNCHANGED <<req, nreq, writer>>
       \/ /\ body.kind = "object" /\ fields_ok(body.fields)
          /\ nreq < MaxRequests
          /\ nreq' = nreq + 1
          /\ req' = [req EXCEPT ![c] = [pc |-> "added", rid |-> nreq + 1, body |-> body,
                                        pending |-> contact_kwargs(body.fields, c)]]
          /\ out' = NoResponse
          /\ UNCHANGED writer
    /\ UNCHANGED <<projects, skills, contacts, clock, tools>>

submit_contact_flush_visible(c) ==
    /\ req[c].pc = "added"
    /\ \/ /\ lock_free(c)
          /\ writer' = c
          /\ clock' = clock + 1
          /\ req' = [req EXCEPT ![c].pc = "flushed",
                                ![c].pending =
                                    ContactMessageRow(@, NewRowid(contacts), clock)
                                        @@ [rid |-> req[c].rid]]
          /\ contacts' = table_insert(contacts,
                                      ContactMessageRow(req[c].pending, NewRowid(contacts), clock)
                                          @@ [rid |-> req[c].rid])
          /\ out' = NoResponse
       \/ /\ \E e \in StoreExceptions :
                submit_contact_except(c, req[c].rid, req[c].body, "storage", e)
          /\ UNCHANGED <<clock, contacts>>
    /\ UNCHANGED <<projects, skills, nreq, tools>>

\* session.commit(), first half: the flush sends the INSERT, which takes the
\* database's write lock and assigns the rowid; it raises when the store
\* fails or the lock is held by another connection.
submit_contact_flush(c) ==
    /\ req[c].pc = "added"
    /\ \/ /\ lock_free(c)
          /\ writer' = c
          /\ clock' = clock + 1
          /\ req' = [req EXCEPT ![c].pc = "flushed",
                                ![c].pending =
                                    ContactMessageRow(@, NewRowid(contacts), clock)
                                        @@ [rid |-> req[c].rid]]
          /\ out' = NoResponse
       \/ /\ \E e \in StoreExceptions :
                submit_contact_except(c, req[c].rid, req[c].body, "storage", e)
          /\ UNCHANGED clock
    /\ UNCHANGED <<projects, skills, contacts, nreq, tools>>

\* session.commit(), second half: COMMIT makes the row visible and releases
\* the lock, and the handler returns the success envelope; or COMMIT raises.
submit_contact_commit(c) ==
    /\ req[c].pc = "flushed"
    /\ \/ /\ contacts' = table_insert(contacts, req[c].pending)
          /\ writer' = 0
          /\ req' = [req EXCEPT ![c] = Idle]
          /\ out' = ContactReply(req[c].rid, req[c].body, "none", "none", 200, ContactSuccess)
       \/ /\ \E e \in StoreExceptions :
                submit_contact_except(c, req[c].rid, req[c].body, "storage", e)
          /\ UNCHANGED contacts
    /\ UNCHANGED <<projects, skills, clock, nreq, tools>>

(***************************************************************************)
(* The API server over the store that test_api.py sets up.                 *)
(***************************************************************************)
Init ==
    /\ projects = {ProjectRow(TestProject1, 1, 0), ProjectRow(TestProject2, 2, 1)}
    /\ skills = {SkillRow(TestSkill1, 1, 2), SkillRow(TestSkill2, 2, 3)}
    /\ contacts = {}
    /\ clock = 4
    /\ req = [c \in Clients |-> Idle]
    /\ writer = 0
    /\ nreq = 0
    /\ out = NoResponse
    /\ ToolsIdle

Begin == \E c \in Clients, body \in ContactBodies : submit_contact_begin(c, body)

Flush == \E c \in Clients : submit_contact_flush(c)

Commit == \E c \in Clients : submit_contact_commit(c)

Next ==
    \/ get_projects
    \/ get_featured_projects
    \/ get_skills
    \/ Begin
    \/ Flush
    \/ Commit

Spec == Init /\ [][Next]_vars

(***************************************************************************)
(* init_db.py: the three tables are cleared and the sample data inserted,  *)
(* in one transaction of the script's own session.                         *)
(***************************************************************************)
SeedProject2 ==
    [title |-> "SecureDesk - Notes & Password Manager",
     description |-> "A comprehensive desktop application",
     tech_stack |-> <<"F", ",", "H">>, date_created |-> Some(Date(2025, 10, 20)),
     github_url |-> Some("https://github.com/jaiyan-th/securedesk"),
     demo_url |-> None, image_url |-> Some("/static/images/securedesk-project.jpg"),
     featured |-> Some(TRUE)]

SampleProjects == <<SeedProject1, SeedProject2>>

SampleSkill(name, category, level, icon) ==
    [name |-> name, category |-> category, proficiency_level |-> Some(level),
     icon_class |-> Some(icon)]

\* programming_skills + tools + learning_skills
SampleSkills ==
    <<SampleSkill("Python", "programming", 4, "fab fa-python"),
      SampleSkill("HTML/CSS", "programming", 4, "fab fa-html5"),
      SeedSkillJs,
      SampleSkill("Java (Basics)", "programming", 2, "fab fa-java"),
      SampleSkill("Excel", "tools", 4, "fas fa-file-excel"),
      SampleSkill("Word", "tools", 4, "fas fa-file-word"),
      SampleSkill("Canva", "tools", 3, "fas fa-palette"),
      SampleSkill("AI Studio", "tools", 3, "fas fa-robot"),
      SampleSkill("SQL", "learning", 2, "fas fa-database"),
      SampleSkill("AI Tools", "learning", 2, "fas fa-brain"),
      SampleSkill("Full-Stack Development", "learning", 2, "fas fa-code")>>

SampleCount == Len(SampleProjects) + Len(SampleSkills)

\* The flush of the added projects: one INSERT each, in the order added.
RECURSIVE insert_projects(_, _, _)
insert_projects(table, inputs, now) ==
    IF inputs = << >> THEN table
    ELSE insert_projects(table \cup {ProjectRow(Head(inputs), NewRowid(table), now)},
                         Tail(inputs), now + 1)

RECURSIVE insert_skills(_, _, _)
insert_skills(table, inputs, now) ==
    IF inputs = << >> THEN table
    ELSE insert_skills(table \cup {SkillRow(Head(inputs), NewRowid(table), now)},
                       Tail(inputs), now + 1)

\* Variant of delete_all: the rows stay.
delete_all_kept(table) == table

\* db.session.query(Model).delete(): every row of the table goes.
delete_all(table) == {}

\* Variant of rollback: the uncommitted changes stay.
rollback_dirty(committed, changed) == changed

\* db.session.rollback(), and the session's end after an exception: the
\* table is as it was committed last.
rollback(committed, changed) == committed

\* What a run of the script ended with: exc is the exception it raised.
ScriptResult(exc) == [op |-> "init_database", exc |-> exc]

\* init_database(): the DELETEs, the INSERTs and the COMMIT succeed together,
\* which needs the write lock; or one of them raises, the transaction is
\* rolled back and the exception leaves the function.
init_database ==
    /\ clock + SampleCount <= MaxClock
    /\ \/ /\ lock_free(0)
          /\ projects' = insert_projects(delete_all(projects), SampleProjects, clock)
          /\ skills' = insert_skills(delete_all(skills), SampleSkills,
                                     clock + Len(SampleProjects))
          /\ contacts' = delete_all(contacts)
          /\ clock' = clock + SampleCount
          /\ out' = ScriptResult("none")
       \/ /\ \E e \in StoreExceptions : out' = ScriptResult(e)
          /\ projects' = rollback(projects, delete_all(projects))
          /\ skills' = rollback(skills, delete_all(skills))
          /\ contacts' = rollback(contacts, delete_all(contacts))
          /\ UNCHANGED clock
    /\ UNCHANGED <<req, writer, nreq, tools>>

NextAdmin ==
    \/ init_database
    \/ get_skills
    \/ Begin
    \/ Flush
    \/ Commit

\* Contact submissions and one read with the initialization script run
\* beside them.
SpecAdmin == Init /\ [][NextAdmin]_vars


(***************************************************************************)
(* Properties.                                                             *)
(***************************************************************************)
IsContactReply(r) == r.op = "submit_contact"

Empty(v) == v = None \/ v = Some("")

\* The body is a JSON object in which a required member is missing or empty.
LacksRequired(body) ==
    /\ body.kind = "object"
    /\ \E k \in Required : k \notin DOMAIN body.fields \/ Empty(body.fields[k])

\* The body is a JSON object with the three required members non-empty.
HasRequired(body) ==
    /\ body.kind = "object"
    /\ \A k \in Required : k \in DOMAIN body.fields /\ ~Empty(body.fields[k])

IsValidationError(r) ==
    /\ r.http = 400
    /\ r.json.status = "error"
    /\ DOMAIN r.json = {"status", "error"}
    /\ r.json.error.code = "VALIDATION_ERROR"

IsDatabaseError(r) ==
    /\ r.http = 500
    /\ r.json.status = "error"
    /\ DOMAIN r.json = {"status", "error"}
    /\ r.json.error.code = "DATABASE_ERROR"

\* C1: a submit_contact request whose JSON object lacks name, email or
\* message, or carries one of them empty, is answered 400 VALIDATION_ERROR
\* by a step that leaves the stored contact messages as they were.
C1_ValidationRejects ==
    [][(IsContactReply(out') /\ LacksRequired(out'.body))
          => (IsValidationError(out') /\ contacts' = contacts)]_vars

C1_Witness ==
    /\ IsContactReply(out)
    /\ LacksRequired(out.body)
    /\ out.http = 400
    /\ contacts # {}

\* C2: a request with non-empty name, email and message that meets no store
\* failure is answered 200 with a success envelope without data, by a step
\* that adds exactly one row: the submitted name, email and message, the
\* submitted subject or "", the caller's address, read_status false, a new
\* id; every row stored before is still there unchanged.
C2_SubmitStoresOne ==
    [][(IsContactReply(out') /\ HasRequired(out'.body) /\ out'.cause # "storage")
          => /\ out'.http = 200
             /\ out'.json.status = "success"
             /\ DOMAIN out'.json = {"status", "message"}
             /\ \E row \in contacts' :
                   /\ row \notin contacts
                   /\ contacts' = contacts \cup {row}
                   /\ row.id \notin Ids(contacts)
                   /\ row.name = out'.body.fields.name
                   /\ row.email = out'.body.fields.email
                   /\ row.message = out'.body.fields.message
                   /\ row.subject = IF "subject" \in DOMAIN out'.body.fields
                                    THEN out'.body.fields.subject ELSE Some("")
                   /\ row.read_status = Some(FALSE)
                   /\ \E c \in Clients :
                         /\ req[c].pc = "flushed"
                         /\ req[c].rid = out'.rid
                         /\ row.ip_address = remote_addr(c)]_vars

C2_Witness ==
    /\ IsContactReply(out)
    /\ HasRequired(out.body)
    /\ out.http = 200
    /\ "subject" \notin DOMAIN out.body.fields
    /\ Cardinality(contacts) = 2

\* C3: when the store fails in the insert or the commit of a valid request,
\* the answer is 500 DATABASE_ERROR, the request's transaction is over when
\* the answer is produced (it holds no lock), the request ends there without
\* another attempt, no row of the request is stored, and a row is only ever
\* added by the step in which its own request answers success.
C3_StorageFailureRollsBack ==
    [][/\ (IsContactReply(out') /\ out'.cause = "storage")
            => /\ IsDatabaseError(out')
               /\ \A row \in contacts' : row.rid # out'.rid
               /\ \A c \in Clients :
                     writer' = c => req'[c].pc = "flushed" /\ req'[c].rid # out'.rid
               /\ \E c \in Clients :
                     /\ req[c].pc # "idle"
                     /\ req[c].rid = out'.rid
                     /\ req'[c] = Idle
       /\ \A row \in contacts' \ contacts :
             IsContactReply(out') /\ out'.http = 200 /\ out'.rid = row.rid]_vars

C3_Witness ==
    /\ IsContactReply(out)
    /\ out.cause = "storage"
    /\ out.http = 500
    /\ writer = 0
    /\ \E row \in contacts : row.id = NewRowid(contacts) - 1 /\ row.rid < out.rid

\* C4: every stored contact message has a non-empty name, email and message.
C4_StoredMessagesComplete ==
    \A row \in contacts : \A k \in Required : ~Empty(row[k])

C4_Witness ==
    /\ Cardinality(contacts) = 2
    /\ IsContactReply(out)
    /\ out.http = 400


IsReply(r, op) == r.op = op /\ r.http = 200

RowById(table, id) == CHOOSE r \in table : r.id = id

EntryIsFeatured(e) == e.featured = Some(TRUE)

\* C5: the featured list is the list of all projects restricted to the
\* entries whose featured is true, in the same order.
C5_FeaturedIsSubsequence ==
    IsReply(out, "get_featured_projects")
        => out.json.data.projects = SelectSeq(get_projects_data(projects), EntryIsFeatured)

C5_Witness ==
    /\ IsReply(out, "get_featured_projects")
    /\ Len(out.json.data.projects) = 1
    /\ \E p \in projects : p.featured = None
    /\ \E p \in projects : p.featured = Some(FALSE)

GroupIds(group) == {group.items[j].id : j \in 1..Len(group.items)}

\* C6: the groups of the skills answer partition the stored skills: every
\* skill is in exactly one place, in the group named by its category; no
\* group is empty, no category names two groups, and the groups hold nothing
\* else.
C6_SkillsPartitioned ==
    IsReply(out, "get_skills")
        => LET groups == out.json.data.skills
               places(id) == {<<i, j>> \in (1..Len(groups)) \X (1..Cardinality(skills)) :
                                 j <= Len(groups[i].items) /\ groups[i].items[j].id = id}
           IN  /\ \A s \in skills :
                     /\ Cardinality(places(s.id)) = 1
                     /\ \A pl \in places(s.id) : groups[pl[1]].category = s.category
               /\ \A i \in 1..Len(groups) :
                     /\ groups[i].items # << >>
                     /\ Len(groups[i].items) <= Cardinality(skills)
                     /\ GroupIds(groups[i]) \subseteq Ids(skills)
               /\ \A i, k \in 1..Len(groups) :
                     groups[i].category = groups[k].category => i = k

C6_Witness ==
    /\ IsReply(out, "get_skills")
    /\ Len(out.json.data.skills) = 2
    /\ \E i \in 1..2 : Len(out.json.data.skills[i].items) = 2

\* C7: the projects answer has one entry for every stored project and no
\* other, in the order in which the projects were inserted.
C7_ProjectsInInsertionOrder ==
    IsReply(out, "get_projects")
        => LET list == out.json.data.projects
           IN  /\ Len(list) = Cardinality(projects)
               /\ {list[i].id : i \in 1..Len(list)} = Ids(projects)
               /\ \A i, j \in 1..Len(list) :
                     i < j => RowById(projects, list[i].id).created_at[1]
                                < RowById(projects, list[j].id).created_at[1]

C7_Witness ==
    /\ IsReply(out, "get_projects")
    /\ Len(out.json.data.projects) = 3

\* C8: every entry of the two projects answers is Project.to_dict() of the
\* stored project: the same ten keys with the same values.
C8_ProjectEntriesAreToDict ==
    (IsReply(out, "get_projects") \/ IsReply(out, "get_featured_projects"))
        => \A i \in 1..Len(out.json.data.projects) :
              out.json.data.projects[i]
                  = Project_to_dict(RowById(projects, out.json.data.projects[i].id))

\* C9: every entry of the skills answer is Skill.to_dict() of the stored
\* skill: the same six keys with the same values.
C9_SkillEntriesAreToDict ==
    IsReply(out, "get_skills")
        => \A i \in 1..Len(out.json.data.skills) :
              \A j \in 1..Len(out.json.data.skills[i].items) :
                  out.json.data.skills[i].items[j]
                      = Skill_to_dict(RowById(skills, out.json.data.skills[i].items[j].id))

\* C10: a stored project whose tech_stack is the empty text is serialized
\* with an empty tech_stack list, by to_dict and by both projects answers.
C10_EmptyTechStack ==
    /\ \A p \in projects :
          p.tech_stack = << >> => Project_to_dict(p).tech_stack = << >>
    /\ (IsReply(out, "get_projects") \/ IsReply(out, "get_featured_projects"))
          => \A i \in 1..Len(out.json.data.projects) :
                RowById(projects, out.json.data.projects[i].id).tech_stack = << >>
                    => out.json.data.projects[i].tech_stack = << >>

C10_Witness ==
    /\ IsReply(out, "get_projects")
    /\ \E i \in 1..Len(out.json.data.projects) :
          /\ RowById(projects, out.json.data.projects[i].id).tech_stack = << >>
          /\ out.json.data.projects[i].tech_stack = << >>
    /\ \E i \in 1..Len(out.json.data.projects) :
          Len(out.json.data.projects[i].tech_stack) = 2

(***************************************************************************)
(* Reading a serialized project back: what a client does with the list     *)
(* and the date text.                                                      *)
(***************************************************************************)
RECURSIVE str_join(_)
str_join(pieces) ==
    IF pieces = << >> THEN << >>
    ELSE IF Len(pieces) = 1 THEN pieces[1]
    ELSE pieces[1] \o <<Delim>> \o str_join(Tail(pieces))

RECURSIVE NumberOf(_)
NumberOf(digits) ==
    IF digits = << >> THEN 0
    ELSE 10 * NumberOf(SubSeq(digits, 1, Len(digits) - 1)) + digits[Len(digits)]

\* strptime(text, '%Y-%m-%d'): day and month are the two-digit fields at the
\* end, the year is what stands before them.
strptime_date(text) ==
    Date(NumberOf(SubSeq(text, 1, Len(text) - 6)),
         NumberOf(SubSeq(text, Len(text) - 4, Len(text) - 3)),
         NumberOf(SubSeq(text, Len(text) - 1, Len(text))))

HasAdjacentDelims(ts) == \E i \in 1..(Len(ts) - 1) : ts[i] = Delim /\ ts[i + 1] = Delim

\* C11: for every stored project, joining the serialized tech_stack list with
\* the delimiter gives back the stored tech_stack text, and parsing the
\* serialized date_created gives back the stored date; the same holds for the
\* entries of a projects answer.
C11_SerializationRoundTrip ==
    /\ \A p \in projects :
          /\ str_join(Project_to_dict(p).tech_stack) = p.tech_stack
          /\ p.date_created # None
                => strptime_date(Project_to_dict(p).date_created[1]) = p.date_created[1]
    /\ (IsReply(out, "get_projects") \/ IsReply(out, "get_featured_projects"))
          => \A i \in 1..Len(out.json.data.projects) :
                LET e == out.json.data.projects[i]
                    p == RowById(projects, e.id)
                IN  /\ str_join(e.tech_stack) = p.tech_stack
                    /\ strptime_date(e.date_created[1]) = p.date_created[1]

C11_Witness ==
    /\ IsReply(out, "get_projects")
    /\ \E i \in 1..Len(out.json.data.projects) :
          LET e == out.json.data.projects[i]
              p == RowById(projects, e.id)
          IN  /\ HasAdjacentDelims(p.tech_stack)
              /\ p.tech_stack[Len(p.tech_stack)] = Delim
              /\ Len(e.tech_stack) = 3
              /\ str_join(e.tech_stack) = p.tech_stack
              /\ strptime_date(e.date_created[1]) = Date(2025, 10, 20)
    /\ \E p \in projects : p.tech_stack = << >>

CreatedWithoutProficiency(s) ==
    \E kwargs \in SkillInputs :
        /\ "proficiency_level" \notin DOMAIN kwargs
        /\ kwargs.name = s.name

\* C12: every skill created without a proficiency level is stored with
\* proficiency_level 1, and reads give that value back: to_dict and the
\* entry of the skills answer.
C12_DefaultProficiency ==
    /\ \A s \in skills :
          CreatedWithoutProficiency(s)
              => /\ s.proficiency_level = Some(1)
                 /\ Skill_to_dict(s).proficiency_level = Some(1)
    /\ IsReply(out, "get_skills")
          => \A i \in 1..Len(out.json.data.skills) :
                \A j \in 1..Len(out.json.data.skills[i].items) :
                    LET e == out.json.data.skills[i].items[j]
                    IN  CreatedWithoutProficiency(RowById(skills, e.id))
                            => e.proficiency_level = Some(1)

C12_Witness ==
    /\ IsReply(out, "get_skills")
    /\ \E i \in 1..Len(out.json.data.skills) :
          \E j \in 1..Len(out.json.data.skills[i].items) :
              LET e == out.json.data.skills[i].items[j]
              IN  /\ CreatedWithoutProficiency(RowById(skills, e.id))
                  /\ e.proficiency_level = Some(1)
    /\ \E s \in skills : s.proficiency_level = Some(4)

\* The answer of a list_projects call made before any other request.
FirstProjectsAnswer ==
    <<project_entry(ProjectRow(TestProject1, 1, 0)),
      project_entry(ProjectRow(TestProject2, 2, 1))>>

\* C13: no request of the API writes the Project table, and every
\* list_projects answer is the sequence the first call returned (same ids,
\* same order, same field values), whatever contact submissions and other
\* reads ran before it or are in progress: any two calls answer alike.
C13_ListProjectsRepeatable ==
    IsReply(out, "get_projects") => out.json.data.projects = FirstProjectsAnswer

C13_Witness ==
    /\ IsReply(out, "get_projects")
    /\ out.json.data.projects = FirstProjectsAnswer
    /\ contacts # {}
    /\ \E c \in Clients : req[c].pc = "flushed"

ReadOps == {"get_projects", "get_featured_projects", "get_skills"}

\* C14: every step of the API leaves the Project and Skill tables as they
\* were and removes or alters no stored contact message; a step that answers
\* a read, a validation error or a storage error leaves the ContactMessage
\* table unchanged as well.
C14_ContentTablesUntouched ==
    [][/\ projects' = projects
       /\ skills' = skills
       /\ contacts \subseteq contacts'
       /\ out'.op \in ReadOps => contacts' = contacts
       /\ (IsContactReply(out') /\ out'.http # 200) => contacts' = contacts]_vars

C14_Witness ==
    /\ IsContactReply(out)
    /\ out.http = 200
    /\ Cardinality(contacts) = 2
    /\ \E row \in contacts : row.rid = out.rid /\ row.id = 2

IsSuccessEnvelope(r) ==
    /\ r.http = 200
    /\ r.json.status = "success"
    /\ "error" \notin DOMAIN r.json

IsErrorEnvelope(r) ==
    /\ r.json.status = "error"
    /\ DOMAIN r.json = {"status", "error"}
    /\ DOMAIN r.json.error = {"code", "message"}
    /\ \/ r.json.error.code = "VALIDATION_ERROR" /\ r.http = 400
       \/ r.json.error.code = "DATABASE_ERROR" /\ r.http = 500

\* C15: every answer of the four operations is a success envelope (status
\* success, no error member, HTTP 200) or an error envelope (status error,
\* one error member with code and message, no data member) whose code is
\* VALIDATION_ERROR with HTTP 400 or DATABASE_ERROR with HTTP 500.
C15_EnvelopeShapes ==
    out # NoResponse
        => /\ out.op \in ReadOps \cup {"submit_contact"}
           /\ out.http \in {200, 400, 500}
           /\ IsSuccessEnvelope(out) \/ IsErrorEnvelope(out)
           /\ ~(IsSuccessEnvelope(out) /\ IsErrorEnvelope(out))

C15_Witness ==
    /\ IsContactReply(out)
    /\ out.http = 400
    /\ IsErrorEnvelope(out)
    /\ out.json.error.code = "VALIDATION_ERROR"
    /\ \E row \in contacts : row.id = 1

\* C16: when the query of a read raises, the answer is the error envelope
\* with DATABASE_ERROR and HTTP 500 and carries no data member, so no part
\* of a list.
C16_ReadFailureIsDatabaseError ==
    (out.op \in ReadOps /\ out.exc # "none")
        => /\ out.http = 500
           /\ IsDatabaseError(out)
           /\ "data" \notin DOMAIN out.json

C16_Witness ==
    /\ out.op = "get_projects"
    /\ out.exc \in StoreExceptions
    /\ out.http = 500
    /\ out.json.error.code = "DATABASE_ERROR"
    /\ Cardinality(projects) = 2

\* C17: in every step, each record that enters a table gets an identifier
\* larger than every identifier the table held before the step, so
\* identifiers grow strictly and none is given to a second record.
C17_IdentifiersNeverReused ==
    [][/\ \A row \in projects' \ projects : \A old \in projects : row.id > old.id
       /\ \A row \in skills' \ skills : \A old \in skills : row.id > old.id
       /\ \A row \in contacts' \ contacts : \A old \in contacts : row.id > old.id]_vars

RowOfRequest(table, rid) == {row \in table : row.rid = rid}

\* C18: with requests of several clients in progress at once, stored messages
\* have pairwise distinct identifiers, no request has more than one stored
\* message, no stored message disappears, and a request that answers success
\* has exactly one stored message, carrying the members of its own body.
C18_ConcurrentSubmissions ==
    [][/\ \A r1, r2 \in contacts' : (r1.id = r2.id \/ r1.rid = r2.rid) => r1 = r2
       /\ \A row \in contacts : row \in contacts'
       /\ (IsContactReply(out') /\ out'.http = 200)
             => /\ Cardinality(RowOfRequest(contacts', out'.rid)) = 1
                /\ \A row \in RowOfRequest(contacts', out'.rid) :
                      /\ row.name = out'.body.fields.name
                      /\ row.email = out'.body.fields.email
                      /\ row.message = out'.body.fields.message
                      /\ row.subject = dict_get(out'.body.fields, "subject", Some(""))
                      /\ row.ip_address = req[CHOOSE c \in Clients :
                                                req[c].pc # "idle" /\ req[c].rid = out'.rid]
                                              .pending.ip_address]_vars

C18_Witness ==
    /\ IsContactReply(out)
    /\ out.http = 200
    /\ \E r1, r2 \in contacts :
          /\ r1.rid < r2.rid
          /\ r1.id > r2.id
          /\ r1.subject # r2.subject
          /\ r1.ip_address # r2.ip_address

ContactColumns ==
    {"id", "name", "email", "subject", "message", "ip_address", "created_at", "read_status"}

\* C19: what a reader of the ContactMessage table can see at any moment is
\* made of whole rows only, each with all its columns, its identifier and
\* its creation instant; the row of a request whose insert is still in
\* progress is not among them, and neither is a row of a request that
\* answered with a storage error.
C19_InsertAtomicForReaders ==
    /\ \A row \in contacts :
          /\ ContactColumns \subseteq DOMAIN row
          /\ row.id >= 1
          /\ row.created_at # None
          /\ row.read_status # None
    /\ \A c \in Clients :
          req[c].pc # "idle" => RowOfRequest(contacts, req[c].rid) = {}
    /\ (IsContactReply(out) /\ out.http = 500)
          => RowOfRequest(contacts, out.rid) = {}

C19_Witness ==
    /\ \E c \in Clients :
          /\ req[c].pc = "flushed"
          /\ req[c].pending.id = 2
          /\ RowOfRequest(contacts, req[c].rid) = {}
    /\ Cardinality(contacts) = 1
    /\ out.op \in ReadOps

\* The one text each operation has for a failure.
FailureText(op) ==
    CASE op = "get_projects" -> "Failed to retrieve projects"
      [] op = "get_featured_projects" -> "Failed to retrieve featured projects"
      [] op = "get_skills" -> "Failed to retrieve skills"
      [] op = "submit_contact" -> "Failed to send message"

\* C20: the error answer of an operation is a function of the operation and
\* the kind of error alone: whatever exception was raised, by the query, the
\* insert, the commit or the reading of the body, the 500 answer is the
\* operation's one DATABASE_ERROR envelope, and every 400 answer is the one
\* VALIDATION_ERROR envelope; no text of the exception is in it.
C20_ErrorAnswerIndependentOfException ==
    /\ (out # NoResponse /\ out.http = 500)
          => /\ out.exc # "none"
             /\ out.json = ErrorEnvelope("DATABASE_ERROR", FailureText(out.op))
    /\ (out # NoResponse /\ out.http = 400)
          => out.json = ErrorEnvelope("VALIDATION_ERROR",
                                      "Name, email, and message are required fields")

C20_Witness ==
    /\ IsContactReply(out)
    /\ out.http = 500
    /\ out.exc = "AttributeError: 'list' object has no attribute 'get'"
    /\ out.json = ErrorEnvelope("DATABASE_ERROR", FailureText(out.op))
    /\ \E c \in Clients : req[c].pc = "flushed"

\* A body that is missing, not sent as JSON or not parseable, JSON null, or
\* the empty object.
NoUsableBody(body) ==
    \/ body.kind \in {"nojson", "null"}
    \/ body.kind = "object" /\ DOMAIN body.fields = {}

\* C21: a request whose body is missing, not JSON, not parseable, JSON null
\* or the empty object is answered 400 VALIDATION_ERROR by a step that leaves
\* the store as it was; it is never answered 500 DATABASE_ERROR.
C21_UnusableBodyIsValidationError ==
    [][(IsContactReply(out') /\ NoUsableBody(out'.body))
          => /\ IsValidationError(out')
             /\ ~IsDatabaseError(out')
             /\ contacts' = contacts]_vars

\* The skills of every group are in the order of the scan of the table.
ItemsInStoreOrder(groups) ==
    \A i \in 1..Len(groups) :
        \A j, k \in 1..Len(groups[i].items) :
            j < k => groups[i].items[j].id < groups[i].items[k].id

\* A group stands before another when its category was seen first.
GroupsInFirstSeenOrder(groups) ==
    \A i, k \in 1..Len(groups) :
        i < k => groups[i].items[1].id < groups[k].items[1].id

GroupsInKeyOrder(groups) ==
    \A i, k \in 1..Len(groups) :
        i < k => Rank(groups[i].category) < Rank(groups[k].category)

\* C22 as claimed: in the skills answer the skills of each group are in
\* store order and the groups are in the order in which their categories were
\* first seen in the scan.
C22_GroupsInFirstSeenOrder ==
    IsReply(out, "get_skills")
        => /\ ItemsInStoreOrder(out.json.data.skills)
           /\ GroupsInFirstSeenOrder(out.json.data.skills)

\* C22 amended: the groups are created in first-seen order while the skills
\* are scanned, and in the skills answer the skills of each group are in
\* store order while the groups are in the order of their category names,
\* the order in which the JSON encoder writes the keys.
C22_GroupsInKeyOrder ==
    /\ GroupsInFirstSeenOrder(skills_by_category(query_all(skills)))
    /\ IsReply(out, "get_skills")
          => /\ ItemsInStoreOrder(out.json.data.skills)
             /\ GroupsInKeyOrder(out.json.data.skills)

C22_Witness ==
    /\ IsReply(out, "get_skills")
    /\ Len(out.json.data.skills) = 2
    /\ ~GroupsInFirstSeenOrder(out.json.data.skills)
    /\ GroupsInKeyOrder(out.json.data.skills)
    /\ \E i \in 1..2 : Len(out.json.data.skills[i].items) = 2

(***************************************************************************)
(* accessibility_audit.py.                                                 *)
(*                                                                         *)
(* A document is what the checks ask the parsed markup for: whether the    *)
(* html tag has a lang, the heading levels in document order, the images   *)
(* with their alt and loading attributes, and so on.  A finding is a text  *)
(* with the numbers its f-string prints.  self.passed, self.warnings and   *)
(* self.issues are the three lists of the record auditor.                  *)
(***************************************************************************)
Msg(text) == [text |-> text, a |-> 0, b |-> 0]

MsgN(text, n) == [text |-> text, a |-> n, b |-> 0]

MsgAB(text, a, b) == [text |-> text, a |-> a, b |-> b]

\* AccessibilityAuditor.__init__
NoFindings == [passed |-> << >>, warnings |-> << >>, issues |-> << >>]

passed_append(F, m) == [F EXCEPT !.passed = Append(@, m)]

warnings_append(F, m) == [F EXCEPT !.warnings = Append(@, m)]

issues_append(F, m) == [F EXCEPT !.issues = Append(@, m)]

check_html_structure(F, doc) ==
    LET f1 == IF doc.html_lang
              THEN passed_append(F, Msg("HTML lang attribute present"))
              ELSE issues_append(F, Msg("Missing lang attribute on <html> tag"))
        f2 == IF doc.title
              THEN passed_append(f1, Msg("Page title present"))
              ELSE issues_append(f1, Msg("Missing or empty page title"))
        f3 == IF doc.meta_description
              THEN passed_append(f2, Msg("Meta description present"))
              ELSE warnings_append(f2, Msg("Missing meta description"))
    IN  IF doc.viewport
        THEN passed_append(f3, Msg("Viewport meta tag present"))
        ELSE issues_append(f3, Msg("Missing viewport meta tag"))

\* for i in range(1, len(heading_levels)): a level more than one deeper
\* than the heading before it is a skip.
RECURSIVE heading_skips(_, _, _)
heading_skips(F, levels, i) ==
    IF i > Len(levels) THEN F
    ELSE heading_skips(
             IF levels[i] > levels[i - 1] + 1
             THEN warnings_append(F, MsgAB("Heading hierarchy skip detected",
                                           levels[i - 1], levels[i]))
             ELSE F,
             levels, i + 1)

heading_skips_once(F, levels, i) ==
    IF \E k \in 1..Len(F.warnings) : F.warnings[k].text = "Heading hierarchy skip detected"
    THEN F
    ELSE heading_skips(F, levels, i)

check_heading_hierarchy_once(F, doc) ==
    IF doc.headings = << >>
    THEN warnings_append(F, Msg("No headings found"))
    ELSE LET h1_count == Cardinality({i \in 1..Len(doc.headings) : doc.headings[i] = 1})
             f1 == IF h1_count = 1
                   THEN passed_append(F, Msg("Exactly one H1 tag found"))
                   ELSE IF h1_count = 0
                        THEN issues_append(F, Msg("No H1 tag found"))
                        ELSE issues_append(F, MsgN("Multiple H1 tags found", h1_count))
         IN  heading_skips_once(f1, doc.headings, 2)

check_heading_hierarchy(F, doc) ==
    IF doc.headings = << >>
    THEN warnings_append(F, Msg("No headings found"))
    ELSE LET h1_count == Cardinality({i \in 1..Len(doc.headings) : doc.headings[i] = 1})
             f1 == IF h1_count = 1
                   THEN passed_append(F, Msg("Exactly one H1 tag found"))
                   ELSE IF h1_count = 0
                        THEN issues_append(F, Msg("No H1 tag found"))
                        ELSE issues_append(F, MsgN("Multiple H1 tags found", h1_count))
         IN  heading_skips(f1, doc.headings, 2)

\* for img in images: alt is "missing" (no attribute), "empty" or "text".
RECURSIVE image_alts(_, _)
image_alts(F, images) ==
    IF images = << >> THEN F
    ELSE image_alts(
             IF Head(images).alt = "missing"
             THEN issues_append(F, Msg("Image missing alt attribute"))
             ELSE IF Head(images).alt = "empty"
                  THEN passed_append(F, Msg("Decorative image with empty alt text"))
                  ELSE passed_append(F, Msg("Image has descriptive alt text")),
             Tail(images))

check_images(F, doc) ==
    LET f1 == image_alts(F, doc.images)
        lazy_images == Cardinality({i \in 1..Len(doc.images) : doc.images[i].lazy})
    IN  IF lazy_images > 0
        THEN passed_append(f1, MsgN("images use lazy loading", lazy_images))
        ELSE f1

\* for input_elem in inputs
RECURSIVE form_inputs(_, _)
form_inputs(F, inputs) ==
    IF inputs = << >> THEN F
    ELSE LET e == Head(inputs)
         IN  form_inputs(
                 IF e.type \in {"hidden", "submit", "button"} THEN F
                 ELSE IF e.has_id
                      THEN IF e.has_label
                           THEN passed_append(F, Msg("Form input has associated label"))
                           ELSE issues_append(F, Msg("Form input missing associated label"))
                      ELSE issues_append(F, Msg("Form input missing id attribute")),
                 Tail(inputs))

\* for form in forms
RECURSIVE check_forms_loop(_, _)
check_forms_loop(F, forms) ==
    IF forms = << >> THEN F
    ELSE LET form == Head(forms)
             f1 == form_inputs(F, form.inputs)
         IN  check_forms_loop(
                 IF Len(form.inputs) > 5 /\ ~form.fieldsets
                 THEN warnings_append(f1, Msg("Complex form might benefit from fieldsets"))
                 ELSE f1,
                 Tail(forms))

check_forms(F, doc) == check_forms_loop(F, doc.forms)

\* for link in links: href is "none", "fragment" (starts with #), "site" or
\* "external" (starts with http and does not hold jaiyanth).
RECURSIVE check_links_loop(_, _)
check_links_loop(F, links) ==
    IF links = << >> THEN F
    ELSE LET link == Head(links)
             f1 == IF ~link.descriptive
                   THEN warnings_append(F, Msg("Link has non-descriptive text"))
                   ELSE F
         IN  check_links_loop(
                 IF link.href = "external" /\ link.target_blank
                 THEN IF link.rel_safe
                      THEN passed_append(f1, Msg("External link has security attributes"))
                      ELSE warnings_append(f1, Msg("External link missing security attributes"))
                 ELSE f1,
                 Tail(links))

check_links(F, doc) == check_links_loop(F, doc.links)

check_aria_attributes(F, doc) ==
    LET f1 == IF doc.aria_label > 0
              THEN passed_append(F, MsgN("elements have ARIA labels", doc.aria_label))
              ELSE F
        f2 == IF doc.role > 0
              THEN passed_append(f1, MsgN("elements have ARIA roles", doc.role))
              ELSE f1
    IN  IF doc.aria_hidden > 0
        THEN passed_append(f2, MsgN("decorative elements are hidden from screen readers",
                                    doc.aria_hidden))
        ELSE f2

check_color_contrast(F, doc) ==
    LET f1 == IF doc.css_color_background
              THEN passed_append(F, Msg("Color and background properties found"))
              ELSE F
    IN  IF doc.css_dark
        THEN passed_append(f1, Msg("Dark mode support detected"))
        ELSE f1

\* for elem in tabindex_elements: a tabindex that is no integer is << >>.
RECURSIVE tabindex_loop(_, _)
tabindex_loop(F, values) ==
    IF values = << >> THEN F
    ELSE tabindex_loop(
             IF Head(values) # None /\ Head(values)[1] > 0
             THEN warnings_append(F, Msg("Positive tabindex found - may disrupt tab order"))
             ELSE F,
             Tail(values))

check_keyboard_navigation(F, doc) ==
    LET f1 == tabindex_loop(F, doc.tabindex)
    IN  IF \E i \in 1..Len(doc.links) : doc.links[i].href = "fragment"
        THEN passed_append(f1, Msg("Skip links found for keyboard navigation"))
        ELSE f1

\* The eight checks in the order of audit_html_file.
CheckNames ==
    <<"check_html_structure", "check_heading_hierarchy", "check_images", "check_forms",
      "check_links", "check_aria_attributes", "check_color_contrast",
      "check_keyboard_navigation">>

\* self.<name>(soup)
call_check(name, F, doc) ==
    CASE name = "check_html_structure" -> check_html_structure(F, doc)
      [] name = "check_heading_hierarchy" -> check_heading_hierarchy(F, doc)
      [] name = "check_images" -> check_images(F, doc)
      [] name = "check_forms" -> check_forms(F, doc)
      [] name = "check_links" -> check_links(F, doc)
      [] name = "check_aria_attributes" -> check_aria_attributes(F, doc)
      [] name = "check_color_contrast" -> check_color_contrast(F, doc)
      [] name = "check_keyboard_navigation" -> check_keyboard_navigation(F, doc)

RECURSIVE run_checks(_, _, _)
run_checks(names, F, doc) ==
    IF names = << >> THEN F
    ELSE run_checks(Tail(names), call_check(Head(names), F, doc), doc)

\* audit_html_file: the findings after the eight checks.
audit_findings(F, doc) == run_checks(CheckNames, F, doc)

\* A page like the site's base template: complete head, headings in order,
\* a lazy image with alt text, a skip link, an ARIA label, styles with
\* colours and a dark mode.
DocBase ==
    [html_lang |-> TRUE, title |-> TRUE, meta_description |-> TRUE, viewport |-> TRUE,
     headings |-> <<1, 2>>,
     images |-> <<[alt |-> "text", lazy |-> TRUE]>>,
     forms |-> << >>,
     links |-> <<[descriptive |-> TRUE, href |-> "fragment",
                  target_blank |-> FALSE, rel_safe |-> FALSE]>>,
     aria_label |-> 1, role |-> 0, aria_hidden |-> 0,
     css_color_background |-> TRUE, css_dark |-> TRUE,
     tabindex |-> << >>]

\* A page with faults: no lang, no viewport, no h1 and a skipped level, an
\* image without alt, a form of six inputs without fieldset, an unsafe
\* external link with a non-descriptive text, a positive tabindex.
DocPoor ==
    [html_lang |-> FALSE, title |-> TRUE, meta_description |-> FALSE, viewport |-> FALSE,
     headings |-> <<2, 4>>,
     images |-> <<[alt |-> "missing", lazy |-> FALSE]>>,
     forms |-> <<[inputs |-> <<[type |-> "text", has_id |-> FALSE, has_label |-> FALSE],
                               [type |-> "email", has_id |-> TRUE, has_label |-> FALSE],
                               [type |-> "text", has_id |-> TRUE, has_label |-> TRUE],
                               [type |-> "hidden", has_id |-> FALSE, has_label |-> FALSE],
                               [type |-> "submit", has_id |-> FALSE, has_label |-> FALSE],
                               [type |-> "", has_id |-> TRUE, has_label |-> TRUE]>>,
                  fieldsets |-> FALSE]>>,
     links |-> <<[descriptive |-> FALSE, href |-> "external",
                  target_blank |-> TRUE, rel_safe |-> FALSE]>>,
     aria_label |-> 0, role |-> 0, aria_hidden |-> 0,
     css_color_background |-> FALSE, css_dark |-> FALSE,
     tabindex |-> <<Some(1), None>>]

\* A plain page: a head without description, no headings, one external
\* link with the security attributes.
DocPlain ==
    [html_lang |-> TRUE, title |-> TRUE, meta_description |-> FALSE, viewport |-> TRUE,
     headings |-> << >>,
     images |-> << >>,
     forms |-> << >>,
     links |-> <<[descriptive |-> TRUE, href |-> "external",
                  target_blank |-> TRUE, rel_safe |-> TRUE]>>,
     aria_label |-> 0, role |-> 0, aria_hidden |-> 0,
     css_color_background |-> FALSE, css_dark |-> FALSE,
     tabindex |-> << >>]

Docs == {DocBase, DocPoor, DocPlain}

\* The site is not running: an empty store and no request.
SiteIdle ==
    /\ projects = {}
    /\ skills = {}
    /\ contacts = {}
    /\ clock = 0
    /\ req = [c \in Clients |-> Idle]
    /\ writer = 0
    /\ nreq = 0
    /\ out = NoResponse

\* auditor = AccessibilityAuditor()
InitChecks ==
    /\ SiteIdle
    /\ auditor = NoFindings
    /\ files = {}
    /\ run = [pc |-> "start", audited |-> 0]

\* auditor.audit_html_file(file) of a file audited earlier.
audit_html_file(doc) ==
    /\ run.pc = "start"
    /\ run.audited < MaxAudited
    /\ auditor' = audit_findings(auditor, doc)
    /\ run' = [run EXCEPT !.audited = @ + 1]
    /\ UNCHANGED <<site, files>>

\* Lines 19-24: the file is read and parsed; base keeps what the lists
\* held, todo the checks that have not run on this document.
parse_html_file(doc) ==
    /\ run.pc = "start"
    /\ run' = [pc |-> "checks", doc |-> doc, base |-> auditor,
               todo |-> {CheckNames[i] : i \in 1..Len(CheckNames)}]
    /\ UNCHANGED <<site, auditor, files>>

\* One check method called on the parsed document.
run_check(name) ==
    /\ run.pc = "checks"
    /\ name \in run.todo
    /\ auditor' = call_check(name, auditor, run.doc)
    /\ run' = [run EXCEPT !.todo = @ \ {name}]
    /\ UNCHANGED <<site, files>>

AuditEarlier == \E doc \in Docs : audit_html_file(doc)

Parse == \E doc \in Docs : parse_html_file(doc)

RunCheck == \E name \in {CheckNames[i] : i \in 1..Len(CheckNames)} : run_check(name)

NextChecks == AuditEarlier \/ Parse \/ RunCheck

\* The check methods of one auditor called on a document in any order.
SpecChecks == InitChecks /\ [][NextChecks]_vars

Count(seq, m) == Cardinality({i \in 1..Len(seq) : seq[i] = m})

SameMultiset(s, t) ==
    /\ Len(s) = Len(t)
    /\ \A i \in 1..Len(s) : Count(s, s[i]) = Count(t, s[i])

SameFindings(F, G) ==
    /\ SameMultiset(F.passed, G.passed)
    /\ SameMultiset(F.warnings, G.warnings)
    /\ SameMultiset(F.issues, G.issues)

\* What the lists of G hold after the entries of F.
AddedTo(F, G) ==
    [passed |-> SubSeq(G.passed, Len(F.passed) + 1, Len(G.passed)),
     warnings |-> SubSeq(G.warnings, Len(F.warnings) + 1, Len(G.warnings)),
     issues |-> SubSeq(G.issues, Len(F.issues) + 1, Len(G.issues))]

Joined(F, G) ==
    [passed |-> F.passed \o G.passed,
     warnings |-> F.warnings \o G.warnings,
     issues |-> F.issues \o G.issues]

\* C23: whatever the lists hold already and whichever checks have run, a
\* check adds to the lists exactly what it adds to empty lists for the same
\* document and keeps what is there; and when the eight checks have run on a
\* document, in any order, the passed, warning and issue findings are as
\* multisets those of audit_html_file's order.
C23_ChecksIndependent ==
    run.pc = "checks"
        => /\ \A name \in run.todo :
                 LET G == call_check(name, auditor, run.doc)
                 IN  /\ Joined(auditor, AddedTo(auditor, G)) = G
                     /\ AddedTo(auditor, G) = call_check(name, NoFindings, run.doc)
           /\ run.todo = {}
                 => /\ SameFindings(auditor, audit_findings(run.base, run.doc))
                    /\ SameFindings(auditor,
                                    Joined(run.base, audit_findings(NoFindings, run.doc)))

C23_Witness ==
    /\ run.pc = "checks"
    /\ run.todo = {}
    /\ run.doc = DocPoor
    /\ run.base = audit_findings(NoFindings, DocPoor)
    /\ auditor # audit_findings(run.base, run.doc)
    /\ SameFindings(auditor, audit_findings(run.base, run.doc))

(***************************************************************************)
(* The working directory of the scripts.                                   *)
(*                                                                         *)
(* files is a record: dirs, the directories that exist, and entries, the   *)
(* files.  A file has the directory it is in, its name as the sequence of  *)
(* the parts between the dots (styles.min.css is <<"styles","min","css">>),*)
(* its text as a sequence of characters, and marks, the substrings the     *)
(* tests search for that the text holds.                                   *)
(***************************************************************************)
File(dir, name, text, marks) == [dir |-> dir, name |-> name, text |-> text, marks |-> marks]

\* Path.stat().st_size, os.path.getsize
st_size(f) == Len(f.text)

Last(seq) == seq[Len(seq)]

\* name.endswith('.min.' + ext)
is_min_name(name, ext) ==
    Len(name) >= 3 /\ name[Len(name) - 1] = "min" /\ Last(name) = ext

\* f"{file.stem}.min.<ext>"
min_name(name, ext) == SubSeq(name, 1, Len(name) - 1) \o <<"min", ext>>

\* f"{path}.gz"
gz_name(name) == Append(name, "gz")

\* dir.glob('*.' + ext)
glob(fs, dir, ext) == {f \in fs.entries : f.dir = dir /\ Len(f.name) >= 2 /\ Last(f.name) = ext}

path_exists(fs, dir, name) == \E f \in fs.entries : f.dir = dir /\ f.name = name

file_at(fs, dir, name) == CHOOSE f \in fs.entries : f.dir = dir /\ f.name = name

\* The orders in which a directory listing can yield a set of files.
Orders(S) ==
    {order \in [1..Cardinality(S) -> S] :
        \A i, j \in 1..Cardinality(S) : order[i] = order[j] => i = j}

(***************************************************************************)
(* performance_test.py.  A result line is a record: ok is the check mark,  *)
(* what names the check, and for a size comparison the two sizes.  A       *)
(* function returns its list, or raises: exc names the exception.          *)
(***************************************************************************)
Returned(results) == [exc |-> "none", results |-> results]

Raised(exc) == [exc |-> exc, results |-> << >>]

SizeLine(ok, file, size, original_size) ==
    [ok |-> ok, what |-> file.name, size |-> size, original_size |-> original_size]

Line(ok, what) == [ok |-> ok, what |-> <<what>>, size |-> 0, original_size |-> 0]

\* Lines 25-32: the line for one file that is no .min file; the reduction
\* it prints is computed from the two sizes.
size_line(fs, file, ext) ==
    LET min_file == min_name(file.name, ext)
    IN  IF path_exists(fs, file.dir, min_file)
        THEN SizeLine(TRUE, file, st_size(file_at(fs, file.dir, min_file)), st_size(file))
        ELSE SizeLine(FALSE, file, 0, 0)

\* minified_size / original_size
divides_by_zero(fs, file, ext) ==
    /\ path_exists(fs, file.dir, min_name(file.name, ext))
    /\ st_size(file) = 0

\* for file in dir.glob('*.' + ext), in the order the listing yields.
RECURSIVE file_sizes_loop(_, _, _, _)
file_sizes_loop(fs, order, ext, acc) ==
    IF acc.exc # "none" \/ order = << >> THEN acc
    ELSE LET file == Head(order)
         IN  file_sizes_loop(fs, Tail(order), ext,
                 IF is_min_name(file.name, ext) THEN acc
                 ELSE IF divides_by_zero(fs, file, ext) THEN Raised("ZeroDivisionError")
                 ELSE Returned(Append(acc.results, size_line(fs, file, ext))))

\* test_file_sizes(): css_order and js_order are the listings of the two
\* directories; a directory that does not exist has none.
test_file_sizes(fs, css_order, js_order) ==
    file_sizes_loop(fs, js_order, "js", file_sizes_loop(fs, css_order, "css", Returned(<< >>)))

under_static(dir) == dir \in {"static", "static/css", "static/js"}

\* static_dir.rglob('*.min.*'): gzipped copies of .min files match as well.
rglob_min(fs) ==
    {f \in fs.entries :
        under_static(f.dir) /\ \E i \in 2..(Len(f.name) - 1) : f.name[i] = "min"}

RECURSIVE gzip_loop(_, _, _)
gzip_loop(fs, order, acc) ==
    IF acc.exc # "none" \/ order = << >> THEN acc
    ELSE LET file == Head(order)
             gz == gz_name(file.name)
         IN  gzip_loop(fs, Tail(order),
                 IF path_exists(fs, file.dir, gz)
                 THEN IF st_size(file) = 0 THEN Raised("ZeroDivisionError")
                      ELSE Returned(Append(acc.results,
                                           SizeLine(TRUE, file,
                                                    st_size(file_at(fs, file.dir, gz)),
                                                    st_size(file))))
                 ELSE Returned(Append(acc.results, SizeLine(FALSE, file, 0, 0))))

\* test_gzip_compression()
test_gzip_compression(fs, min_order) == gzip_loop(fs, min_order, Returned(<< >>))

BaseHtml == <<"base", "html">>

StylesCss == <<"styles", "css">>

has_mark(fs, dir, name, mark) == mark \in file_at(fs, dir, name).marks

\* One membership test on the text of a file and the line it appends.
mark_line(fs, dir, name, mark, what) == Line(has_mark(fs, dir, name, mark), what)

\* test_accessibility_features(): css_content is assigned only when
\* styles.css exists, and is read when base.html lacks the reduced-motion
\* text.
test_accessibility_features(fs) ==
    IF ~path_exists(fs, "templates", BaseHtml) THEN Returned(<< >>)
    ELSE LET css == path_exists(fs, "static/css", StylesCss)
             r2 == <<mark_line(fs, "templates", BaseHtml, "skip-link", "Skip link"),
                     mark_line(fs, "templates", BaseHtml, "aria-label", "ARIA labels")>>
             r3 == IF css
                   THEN Append(r2, mark_line(fs, "static/css", StylesCss, ":focus",
                                             "Focus indicators"))
                   ELSE r2
         IN  IF has_mark(fs, "templates", BaseHtml, "prefers-reduced-motion")
             THEN Returned(Append(r3, Line(TRUE, "Reduced motion support")))
             ELSE IF ~css THEN Raised("UnboundLocalError")
             ELSE Returned(Append(r3, mark_line(fs, "static/css", StylesCss,
                                                "prefers-reduced-motion",
                                                "Reduced motion support")))

\* test_seo_features()
test_seo_features(fs) ==
    LET r1 == IF path_exists(fs, "templates", BaseHtml)
              THEN <<mark_line(fs, "templates", BaseHtml, "meta name=description",
                               "Meta description"),
                     mark_line(fs, "templates", BaseHtml, "property=og:", "Open Graph tags"),
                     mark_line(fs, "templates", BaseHtml, "name=twitter:", "Twitter Card tags"),
                     mark_line(fs, "templates", BaseHtml, "application/ld+json",
                               "Structured data"),
                     mark_line(fs, "templates", BaseHtml, "rel=canonical", "Canonical URL")>>
              ELSE << >>
    IN  Returned(Append(r1, Line(path_exists(fs, "static", <<"robots", "txt">>),
                                 "robots.txt file")))

\* test_performance_features()
test_performance_features(fs) ==
    LET r1 == IF path_exists(fs, "templates", BaseHtml)
              THEN <<mark_line(fs, "templates", BaseHtml, "rel=preconnect", "Preconnect hints"),
                     mark_line(fs, "templates", BaseHtml, "rel=dns-prefetch",
                               "DNS prefetch hints"),
                     mark_line(fs, "templates", BaseHtml, "rel=preload", "Resource preloading"),
                     mark_line(fs, "templates", BaseHtml, "display=swap",
                               "Font display optimization")>>
              ELSE << >>
        r2 == IF path_exists(fs, "static/css", StylesCss)
              THEN <<mark_line(fs, "static/css", StylesCss, "will-change",
                               "GPU acceleration hints"),
                     mark_line(fs, "static/css", StylesCss, "contain:", "CSS containment")>>
              ELSE << >>
    IN  Returned(r1 \o r2)

RECURSIVE SumSizes(_)
SumSizes(S) ==
    IF S = {} THEN 0
    ELSE LET f == CHOOSE f \in S : TRUE IN st_size(f) + SumSizes(S \ {f})

\* calculate_total_size(): the files under static that are no .gz files.
calculate_total_size(fs) ==
    LET counted == {f \in fs.entries : under_static(f.dir) /\ Last(f.name) # "gz"}
    IN  [total_size |-> SumSizes(counted), file_count |-> Cardinality(counted)]

CountOk(results) == Cardinality({i \in 1..Len(results) : results[i].ok})

\* generate_performance_summary(): the five tests in turn, the first
\* exception ends it; then the counts and the success rate.
generate_performance_summary(fs, css_order, js_order, min_order) ==
    LET t1 == test_file_sizes(fs, css_order, js_order)
        t2 == test_gzip_compression(fs, min_order)
        t3 == test_accessibility_features(fs)
        t4 == test_seo_features(fs)
        t5 == test_performance_features(fs)
        all == t1.results \o t2.results \o t3.results \o t4.results \o t5.results
        total_checks == Len(all)
        passed_checks == CountOk(all)
    IN  IF t1.exc # "none" THEN [exc |-> t1.exc]
        ELSE IF t2.exc # "none" THEN [exc |-> t2.exc]
        ELSE IF t3.exc # "none" THEN [exc |-> t3.exc]
        ELSE IF total_checks = 0 THEN [exc |-> "ZeroDivisionError"]
        ELSE [exc |-> "none",
              total_checks |-> total_checks,
              passed_checks |-> passed_checks,
              failed_checks |-> total_checks - passed_checks,
              success_rate |-> (passed_checks * 1000) \div total_checks,
              assets |-> calculate_total_size(fs),
              lines |-> all]

(***************************************************************************)
(* The working directories the performance test is run in.                 *)
(***************************************************************************)
BaseMarks ==
    {"skip-link", "aria-label", "prefers-reduced-motion", "meta name=description",
     "property=og:", "name=twitter:", "application/ld+json", "rel=canonical",
     "rel=preconnect", "rel=dns-prefetch", "rel=preload", "display=swap"}

\* templates/base.html: with everything the tests look for, or with a skip
\* link only.
BaseHtmlFiles ==
    {File("templates", BaseHtml, <<"h", "t", "m", "l">>, BaseMarks),
     File("templates", BaseHtml, <<"h">>, {"skip-link"})}

StylesText == <<"a", " ", "{", "b", ";", "}">>

\* static/css/styles.css: with the texts the tests look for, or empty.
StylesCssFiles ==
    {File("static/css", StylesCss, StylesText, {":focus", "will-change", "contain:"}),
     File("static/css", StylesCss, << >>, {})}

\* static/css/styles.min.css: shorter than StylesText, or longer.
StylesMinFiles ==
    {File("static/css", <<"styles", "min", "css">>, <<"a", "{", "b", "}">>, {}),
     File("static/css", <<"styles", "min", "css">>,
          <<"a", "{", "b", ";", "c", ";", "d", "}">>, {})}

Gzipped(f) == File(f.dir, gz_name(f.name), <<"g", "z">> \o f.text, {})

\* The contents static/css can have: nothing, or any of styles.css,
\* styles.min.css and, with the latter, its gzipped copy.
CssDirContents ==
    {{}} \cup {{f} : f \in StylesCssFiles} \cup {{m} : m \in StylesMinFiles}
    \cup {{f, m} : f \in StylesCssFiles, m \in StylesMinFiles}
    \cup {{f, m, Gzipped(m)} : f \in StylesCssFiles, m \in StylesMinFiles}

AppJs == File("static/js", <<"app", "js">>, <<"x", " ", "=", " ", "1", ";">>, {})

JsDirContents == {{}, {AppJs}, {AppJs, File("static/js", <<"app", "min", "js">>, <<"x", "=", "1", ";">>, {})}}

RobotsTxt == File("static", <<"robots", "txt">>, <<"U">>, {})

Optional(S) == {{}} \cup {{x} : x \in S}

\* Every combination of: templates/base.html, the static/css directory and
\* what it holds, the static/js directory and what it holds, robots.txt.
PerfFileSystems ==
    {[dirs |-> {"static", "templates"} \cup cssdir \cup jsdir,
      entries |-> base \cup css \cup js \cup robots] :
        base \in Optional(BaseHtmlFiles),
        cssdir \in Optional({"static/css"}), css \in CssDirContents,
        jsdir \in Optional({"static/js"}), js \in JsDirContents,
        robots \in Optional({RobotsTxt})}

\* A directory holds files only when it exists.
WellFormed(fs) == \A f \in fs.entries : f.dir \in fs.dirs

InitPerf ==
    /\ SiteIdle
    /\ auditor = NoFindings
    /\ files \in {fs \in PerfFileSystems : WellFormed(fs)}
    /\ run = [pc |-> "start"]

\* A call of test_file_sizes().
call_test_file_sizes ==
    /\ run.pc = "start"
    /\ \E css_order \in Orders(glob(files, "static/css", "css")),
          js_order \in Orders(glob(files, "static/js", "js")) :
          run' = [pc |-> "tested", result |-> test_file_sizes(files, css_order, js_order)]
    /\ UNCHANGED <<site, auditor, files>>

ReportFile == File(".", <<"performance_test_report", "md">>, <<"#">>, {})

\* performance_test.main(): the summary is generated and written and 0 is
\* returned; an exception is caught and 1 is returned.
performance_main ==
    /\ run.pc = "start"
    /\ \E css_order \in Orders(glob(files, "static/css", "css")),
          js_order \in Orders(glob(files, "static/js", "js")),
          min_order \in Orders(rglob_min(files)) :
          LET summary == generate_performance_summary(files, css_order, js_order, min_order)
          IN  IF summary.exc = "none"
              THEN /\ files' = [files EXCEPT !.entries = @ \cup {ReportFile}]
                   /\ run' = [pc |-> "exited", code |-> 0, summary |-> summary]
              ELSE /\ files' = files
                   /\ run' = [pc |-> "exited", code |-> 1, summary |-> summary]
    /\ UNCHANGED <<site, auditor>>

NextPerf == call_test_file_sizes \/ performance_main

\* The performance test run once in a working directory.
SpecPerf == InitPerf /\ [][NextPerf]_vars

\* C24: test_file_sizes gives a file the check mark only when its minified
\* counterpart exists and is strictly smaller than the file.
C24_PassedOnlyWhenSmaller ==
    (run.pc = "tested" /\ run.result.exc = "none")
        => \A i \in 1..Len(run.result.results) :
              LET line == run.result.results[i]
                  ext == Last(line.what)
                  dir == IF ext = "css" THEN "static/css" ELSE "static/js"
              IN  line.ok
                    => /\ path_exists(files, dir, min_name(line.what, ext))
                       /\ st_size(file_at(files, dir, min_name(line.what, ext)))
                            < st_size(file_at(files, dir, line.what))

\* C28: in every working directory whose files are not empty, whichever of
\* templates/base.html, static/css/styles.css, the static/css and static/js
\* directories and static/robots.txt exist, main ends with code 0 after a
\* summary that raised nothing, counted at least one check, has
\* passed + failed = total, and was written to the report file.
C28_SummaryNeverRaises ==
    (run.pc = "exited" /\ \A f \in files.entries : st_size(f) > 0)
        => /\ run.code = 0
           /\ run.summary.exc = "none"
           /\ run.summary.total_checks > 0
           /\ run.summary.passed_checks + run.summary.failed_checks
                = run.summary.total_checks
           /\ ReportFile \in files.entries

(***************************************************************************)
(* optimize.py.  A text is a sequence of characters; " " and "\n" are the  *)
(* whitespace of the texts used here.                                      *)
(***************************************************************************)
IsSpace(c) == c \in {" ", "\n"}

\* The start of the first "*/" at or after position i of s; 0 when none.
RECURSIVE find_close(_, _)
find_close(s, i) ==
    IF i + 1 > Len(s) THEN 0
    ELSE IF s[i] = "*" /\ s[i + 1] = "/" THEN i
    ELSE find_close(s, i + 1)

\* re.sub(r'/\*.*?\*/', '', s, flags=re.DOTALL)
RECURSIVE remove_comments(_)
remove_comments(s) ==
    IF Len(s) < 2 THEN s
    ELSE IF s[1] = "/" /\ s[2] = "*" /\ find_close(s, 3) > 0
         THEN remove_comments(SubSeq(s, find_close(s, 3) + 2, Len(s)))
         ELSE <<s[1]>> \o remove_comments(Tail(s))

\* The end of the line that holds position i of s.
RECURSIVE end_of_line(_, _)
end_of_line(s, i) ==
    IF i > Len(s) \/ s[i] = "\n" THEN i ELSE end_of_line(s, i + 1)

\* re.sub(r'(?<!:)//.*$', '', s, flags=re.MULTILINE), from position i on
RECURSIVE remove_line_comments(_, _)
remove_line_comments(s, i) ==
    IF i > Len(s) THEN << >>
    ELSE IF /\ i < Len(s) /\ s[i] = "/" /\ s[i + 1] = "/"
            /\ ~(i > 1 /\ s[i - 1] = ":")
         THEN remove_line_comments(s, end_of_line(s, i))
         ELSE <<s[i]>> \o remove_line_comments(s, i + 1)

\* re.sub(r'\s+', ' ', s)
RECURSIVE collapse_whitespace(_)
collapse_whitespace(s) ==
    IF s = << >> THEN << >>
    ELSE IF IsSpace(s[1])
         THEN IF Len(s) > 1 /\ IsSpace(s[2])
              THEN collapse_whitespace(Tail(s))
              ELSE <<" ">> \o collapse_whitespace(Tail(s))
         ELSE <<s[1]>> \o collapse_whitespace(Tail(s))

\* re.sub(r'\s*([<chars>])\s*', r'\1', s), from position i on: the whitespace
\* next to one of the characters goes.
RECURSIVE remove_whitespace_around(_, _, _)
remove_whitespace_around(s, chars, i) ==
    IF i > Len(s) THEN << >>
    ELSE IF /\ IsSpace(s[i])
            /\ \/ (i > 1 /\ s[i - 1] \in chars)
               \/ (i < Len(s) /\ s[i + 1] \in chars)
         THEN remove_whitespace_around(s, chars, i + 1)
         ELSE <<s[i]>> \o remove_whitespace_around(s, chars, i + 1)

\* re.sub(r';}', '}', s), from position i on
RECURSIVE remove_trailing_semicolons(_, _)
remove_trailing_semicolons(s, i) ==
    IF i > Len(s) THEN << >>
    ELSE IF i < Len(s) /\ s[i] = ";" /\ s[i + 1] = "}"
         THEN <<"}">> \o remove_trailing_semicolons(s, i + 2)
         ELSE <<s[i]>> \o remove_trailing_semicolons(s, i + 1)

\* str.strip()
RECURSIVE strip(_)
strip(s) ==
    IF s = << >> THEN s
    ELSE IF IsSpace(s[1]) THEN strip(Tail(s))
    ELSE IF IsSpace(Last(s)) THEN strip(SubSeq(s, 1, Len(s) - 1))
    ELSE s

minify_css(css_content) ==
    LET without_comments == remove_comments(css_content)
        collapsed == collapse_whitespace(without_comments)
        tight == remove_whitespace_around(collapsed, {"{", "}", ":", ";", ",", ">", "+", "~"}, 1)
    IN  strip(remove_trailing_semicolons(tight, 1))

minify_js(js_content) ==
    LET without_line_comments == remove_line_comments(js_content, 1)
        without_comments == remove_comments(without_line_comments)
        collapsed == collapse_whitespace(without_comments)
    IN  strip(remove_whitespace_around(collapsed,
                {"{", "}", "(", ")", ";", ",", "=", "+", "-", "*", "/"}, 1))

\* open(path, 'w').write(text): the file is created or replaced.
write_file(fs, f) ==
    [fs EXCEPT !.entries = {g \in @ : ~(g.dir = f.dir /\ g.name = f.name)} \cup {f}]

\* What a step on the working directory leaves: the directory, and the
\* exception that ended the step ("none" when it returned).
Done(fs) == [exc |-> "none", fs |-> fs]

Failed(exc, fs) == [exc |-> exc, fs |-> fs]

\* create_gzipped_version(file_path): the copy is written, then the ratio of
\* the two sizes divides by the size of the file.
create_gzipped_version(fs, f) ==
    LET zipped == write_file(fs, Gzipped(f))
    IN  IF st_size(f) = 0 THEN Failed("ZeroDivisionError", zipped) ELSE Done(zipped)

\* The loop of optimize_css_files() / optimize_js_files() over the directory
\* listing, from its i-th file on.
RECURSIVE optimize_loop(_, _, _, _)
optimize_loop(fs, order, ext, i) ==
    IF i > Len(order) THEN Done(fs)
    ELSE IF is_min_name(order[i].name, ext) THEN optimize_loop(fs, order, ext, i + 1)
    ELSE LET original_content == file_at(fs, order[i].dir, order[i].name).text
             minified_content == IF ext = "css" THEN minify_css(original_content)
                                 ELSE minify_js(original_content)
             min_file == File(order[i].dir, min_name(order[i].name, ext), minified_content, {})
             written == write_file(fs, min_file)
         IN  IF Len(original_content) = 0 THEN Failed("ZeroDivisionError", written)
             ELSE LET zipped == create_gzipped_version(written, min_file)
                  IN  IF zipped.exc # "none" THEN zipped
                      ELSE optimize_loop(zipped.fs, order, ext, i + 1)

optimize_css_files(fs, order) ==
    IF "static/css" \notin fs.dirs THEN Done(fs) ELSE optimize_loop(fs, order, "css", 1)

optimize_js_files(fs, order) ==
    IF "static/js" \notin fs.dirs THEN Done(fs) ELSE optimize_loop(fs, order, "js", 1)

\* f"{total_size / 1024:.1f}", in tenths of a KB (sizes here stay far below
\* the first tie of the rounding, 256 bytes).
kb_tenths(total_size) == (total_size * 10 + 512) \div 1024

\* generate_performance_report(): the number and the size of the files under
\* static that are no .gz files go into performance_report.md.
generate_performance_report(fs) ==
    LET counted == calculate_total_size(fs)
        summary == IF "static" \in fs.dirs
                   THEN <<ToString(counted.file_count), ToString(kb_tenths(counted.total_size))>>
                   ELSE << >>
    IN  Done(write_file(fs, File(".", <<"performance_report", "md">>, <<"#">> \o summary, {})))

\* main(): the three steps in turn; the first exception ends the run.
optimize_run(fs, css_order, js_order) ==
    LET css == optimize_css_files(fs, css_order)
    IN  IF css.exc # "none" THEN css
        ELSE LET js == optimize_js_files(css.fs, js_order)
             IN  IF js.exc # "none" THEN js
                 ELSE generate_performance_report(js.fs)

\* static/css/main.css: a rule with a comment, a comment only, or empty.
MainCssFiles ==
    {File("static/css", <<"main", "css">>,
          <<"/", "*", "c", "*", "/", "\n", "a", " ", "{", " ", "b", ":", " ", "1", ";", " ", "}">>, {}),
     File("static/css", <<"main", "css">>, <<"/", "*", "c", "*", "/", "\n">>, {}),
     File("static/css", <<"main", "css">>, << >>, {})}

ThemeCss == File("static/css", <<"theme", "css">>, <<"a", " ", ">", " ", "b", "{", "}">>, {})

\* A minified file left by an earlier run, with no original next to it.
OldMinCss == File("static/css", <<"old", "min", "css">>, <<"o", " ", "{", "}">>, {})

\* static/js/app.js: a statement with a line comment, a URL, or empty.
AppJsFiles ==
    {File("static/js", <<"app", "js">>,
          <<"x", " ", "=", " ", "1", ";", " ", "/", "/", "c", "\n", "y", "(", ")", ";">>, {}),
     File("static/js", <<"app", "js">>, <<"u", "=", "h", ":", "/", "/", "w", ";">>, {}),
     File("static/js", <<"app", "js">>, << >>, {})}

OptimizeFileSystems ==
    {[dirs |-> {"static"} \cup cssdir \cup jsdir,
      entries |-> main \cup theme \cup old \cup js] :
        cssdir \in Optional({"static/css"}), jsdir \in Optional({"static/js"}),
        main \in Optional(MainCssFiles), theme \in Optional({ThemeCss}),
        old \in Optional({OldMinCss}), js \in Optional(AppJsFiles)}

InitOptimize ==
    /\ SiteIdle
    /\ auditor = NoFindings
    /\ files \in {fs \in OptimizeFileSystems : WellFormed(fs)}
    /\ run = [pc |-> "start"]

\* optimize.main(): 0 when the three steps returned, 1 when one raised.
optimize_main ==
    /\ run.pc = "start"
    /\ \E css_order \in Orders(glob(files, "static/css", "css")),
          js_order \in Orders(glob(files, "static/js", "js")) :
          LET result == optimize_run(files, css_order, js_order)
          IN  /\ files' = result.fs
              /\ run' = [pc |-> "exited", code |-> IF result.exc = "none" THEN 0 ELSE 1,
                         exc |-> result.exc]
    /\ UNCHANGED <<site, auditor>>

NextOptimize == optimize_main

\* The optimization run once in a working directory.
SpecOptimize == InitOptimize /\ [][NextOptimize]_vars

\* The file has its minified counterpart and the gzipped copy of that.
Processed(f, ext) ==
    /\ path_exists(files, f.dir, min_name(f.name, ext))
    /\ Gzipped(file_at(files, f.dir, min_name(f.name, ext))) \in files.entries

Originals(dir, ext) == {f \in glob(files, dir, ext) : ~is_min_name(f.name, ext)}

AllProcessed ==
    /\ \A f \in Originals("static/css", "css") : Processed(f, "css")
    /\ \A f \in Originals("static/js", "js") : Processed(f, "js")

\* C29: when optimize.main has ended, every CSS and JavaScript file that is
\* no .min file has its minified counterpart and the gzipped copy of it, no
\* minified copy of a .min file was made, the report was written, and the
\* exit code is 0 exactly when every file was processed.
C29_EveryFileProcessed ==
    run.pc = "exited"
        => /\ AllProcessed
           /\ \A f \in files.entries :
                 ~(Len(f.name) >= 3 /\ f.name[Len(f.name) - 2] = "min"
                                    /\ f.name[Len(f.name) - 1] = "min")
           /\ path_exists(files, ".", <<"performance_report", "md">>)
           /\ (run.code = 0 <=> AllProcessed)

(***************************************************************************)
(* accessibility_audit.main().  The working directory: dirs holds          *)
(* "templates" when the directory exists, templates its *.html files (a    *)
(* name and the parsed document), report what accessibility_report.md      *)
(* holds (None before it is written).                                      *)
(***************************************************************************)
Template(name, doc) == [name |-> name, doc |-> doc]

TemplateNames == {"base", "index", "contact"}

AuditFileSystems ==
    {[dirs |-> dirs, templates |-> {Template(n, pick[n]) : n \in names}, report |-> None] :
        dirs \in SUBSET {"templates"}, names \in SUBSET TemplateNames,
        pick \in [TemplateNames -> Docs]}

\* generate_report(): the counts the report states.
generate_report(F) ==
    [total_checks |-> Len(F.passed) + Len(F.warnings) + Len(F.issues),
     passed |-> Len(F.passed), warnings |-> Len(F.warnings), issues |-> Len(F.issues)]

\* Variant of exit_code: warnings count as failures too.
exit_code_strict(F) == IF F.issues # << >> \/ F.warnings # << >> THEN 1 ELSE 0

\* Lines 311-316: 1 when an issue was recorded, 0 otherwise.
exit_code(F) == IF F.issues # << >> THEN 1 ELSE 0

InitAudit ==
    /\ SiteIdle
    /\ auditor = NoFindings
    /\ files \in {fs \in AuditFileSystems : fs.templates # {} => "templates" \in fs.dirs}
    /\ run = [pc |-> "start"]

\* Lines 282-294: a new auditor; the templates are listed, or the directory
\* is missing and main returns 1.
audit_main ==
    /\ run.pc = "start"
    /\ auditor' = NoFindings
    /\ IF "templates" \in files.dirs
       THEN \E html_files \in Orders(files.templates) :
               run' = [pc |-> "auditing", html_files |-> html_files, i |-> 1]
       ELSE run' = [pc |-> "exited", code |-> 1]
    /\ UNCHANGED <<site, files>>

\* Lines 289-291: the next template is audited.
audit_next_file ==
    /\ run.pc = "auditing"
    /\ run.i <= Len(run.html_files)
    /\ auditor' = audit_findings(auditor, run.html_files[run.i].doc)
    /\ run' = [run EXCEPT !.i = @ + 1]
    /\ UNCHANGED <<site, files>>

\* Lines 296-316: the report is written and main returns.
audit_report ==
    /\ run.pc = "auditing"
    /\ run.i > Len(run.html_files)
    /\ files' = [files EXCEPT !.report = Some(generate_report(auditor))]
    /\ run' = [pc |-> "exited", code |-> exit_code(auditor)]
    /\ UNCHANGED <<site, auditor>>

NextAudit == audit_main \/ audit_next_file \/ audit_report

\* The audit run once in a working directory.
SpecAudit == InitAudit /\ [][NextAudit]_vars

IsPrefix(s, t) == Len(s) <= Len(t) /\ SubSeq(t, 1, Len(s)) = s

\* The numbers of findings of each kind that the templates of S have when
\* each is audited by an auditor of its own.
RECURSIVE FindingsOfEach(_)
FindingsOfEach(S) ==
    IF S = {} THEN [passed |-> 0, warnings |-> 0, issues |-> 0]
    ELSE LET t == CHOOSE t \in S : TRUE
             own == audit_findings(NoFindings, t.doc)
             rest == FindingsOfEach(S \ {t})
         IN  [passed |-> Len(own.passed) + rest.passed,
              warnings |-> Len(own.warnings) + rest.warnings,
              issues |-> Len(own.issues) + rest.issues]

\* C27: the three lists of the auditor only grow; when main has ended with
\* the templates directory present, the lists hold the findings of all the
\* templates, the report's total is passed + warnings + issues, and the exit
\* code is 1 when an issue was recorded and 0 otherwise; with the directory
\* missing the exit code is 1.
C27_FindingsAccumulate ==
    [][/\ IsPrefix(auditor.passed, auditor'.passed)
       /\ IsPrefix(auditor.warnings, auditor'.warnings)
       /\ IsPrefix(auditor.issues, auditor'.issues)
       /\ (run'.pc = "exited" /\ "templates" \notin files'.dirs) => run'.code = 1
       /\ (run'.pc = "exited" /\ "templates" \in files'.dirs)
            => /\ Len(auditor'.passed) = FindingsOfEach(files'.templates).passed
               /\ Len(auditor'.warnings) = FindingsOfEach(files'.templates).warnings
               /\ Len(auditor'.issues) = FindingsOfEach(files'.templates).issues
               /\ files'.report # None
               /\ files'.report[1].total_checks
                    = Len(auditor'.passed) + Len(auditor'.warnings) + Len(auditor'.issues)
               /\ run'.code = (IF auditor'.issues # << >> THEN 1 ELSE 0)]_vars

\* Two templates were audited, warnings but no issue were recorded, and main
\* returned 0.
C27_Witness ==
    /\ run.pc = "exited"
    /\ Cardinality(files.templates) >= 2
    /\ auditor.warnings # << >>
    /\ auditor.issues = << >>
    /\ run.code = 0

(***************************************************************************)
(* init_db.py run from the command line, with no server beside it, on a    *)
(* store that holds anything.                                              *)
(***************************************************************************)
PriorProjects == {ProjectRow(TestProject1, 1, 0), ProjectRow(SeedProject1, 2, 1)}

PriorSkills ==
    {SkillRow(TestSkill1, 1, 2), SkillRow(TestSkill2, 2, 2), SkillRow(SeedSkillJs, 5, 3)}

PriorContacts == {ContactMessageRow(contact_kwargs(ValidBody.fields, 1), 1, 3) @@ [rid |-> 0]}

PriorClock == 4

InitScript ==
    /\ projects \in SUBSET PriorProjects
    /\ skills \in SUBSET PriorSkills
    /\ contacts \in SUBSET PriorContacts
    /\ clock = PriorClock
    /\ req = [c \in Clients |-> Idle]
    /\ writer = 0
    /\ nreq = 0
    /\ out = NoResponse
    /\ ToolsIdle

ResetResult(exc) == [op |-> "reset_database", exc |-> exc]

\* reset_database(): drop_all() removes the tables at once, then
\* init_database() runs on the empty store.
reset_database ==
    /\ clock + SampleCount <= MaxClock
    /\ \/ /\ lock_free(0)
          /\ projects' = insert_projects({}, SampleProjects, clock)
          /\ skills' = insert_skills({}, SampleSkills, clock + Len(SampleProjects))
          /\ contacts' = {}
          /\ clock' = clock + SampleCount
          /\ out' = ResetResult("none")
       \/ /\ \E e \in StoreExceptions : out' = ResetResult(e)
          /\ projects' = rollback({}, {})
          /\ skills' = rollback({}, {})
          /\ contacts' = rollback({}, {})
          /\ UNCHANGED clock
    /\ UNCHANGED <<req, writer, nreq, tools>>

NextScript == init_database \/ reset_database

SpecScript == InitScript /\ [][NextScript]_vars

\* The rows of a table without their identifiers and timestamps.
Content(table, columns) == {[c \in columns |-> row[c]] : row \in table}

ProjectContentColumns ==
    {"title", "description", "tech_stack", "date_created", "github_url", "demo_url",
     "image_url", "featured"}

SkillContentColumns == {"name", "category", "proficiency_level", "icon_class"}

SeededProjects ==
    {[title |-> SampleProjects[i].title, description |-> SampleProjects[i].description,
      tech_stack |-> SampleProjects[i].tech_stack,
      date_created |-> SampleProjects[i].date_created,
      github_url |-> SampleProjects[i].github_url, demo_url |-> SampleProjects[i].demo_url,
      image_url |-> SampleProjects[i].image_url, featured |-> SampleProjects[i].featured] :
        i \in 1..Len(SampleProjects)}

SeededSkills == {SampleSkills[i] : i \in 1..Len(SampleSkills)}

\* C25: whatever the store held, after a run of init_database that succeeded
\* (directly or from reset_database) it holds 2 projects and 11 skills, whose
\* content is that of the sample data, and no contact message; so a second
\* run leaves the content of the first.
C25_InitIdempotent ==
    (out.op \in {"init_database", "reset_database"} /\ out.exc = "none")
        => /\ Cardinality(projects) = 2
           /\ Cardinality(skills) = 11
           /\ Content(projects, ProjectContentColumns) = SeededProjects
           /\ Content(skills, SkillContentColumns) = SeededSkills
           /\ contacts = {}

\* init_database has succeeded for the second time.
C25_Witness ==
    /\ out = ScriptResult("none")
    /\ clock = PriorClock + 2 * SampleCount

\* C26: a run of init_database that raises leaves every table as it was, and
\* the exception leaves the function; a run that does not raise leaves all
\* the sample rows and nothing else.  No run leaves the store emptied or
\* partly seeded.
C26_InitAllOrNothing ==
    [][/\ (out'.op = "init_database" /\ out'.exc # "none")
            => /\ out'.exc \in StoreExceptions
               /\ UNCHANGED <<projects, skills, contacts>>
       /\ (out'.op = "init_database" /\ out'.exc = "none")
            => /\ Cardinality(projects') = Len(SampleProjects)
               /\ Cardinality(skills') = Len(SampleSkills)
               /\ contacts' = {}]_vars

\* init_database has raised on a store that holds a project, a skill and a
\* contact message, which are all still there.
C26_Witness ==
    /\ out.op = "init_database"
    /\ out.exc \in StoreExceptions
    /\ projects # {} /\ skills # {} /\ contacts # {}

====
